---- MODULE Spec2Model ----
(***************************************************************************)
(* The transaction engine of the vehicle marketplace backend: the          *)
(* transactions and vehicles collections, and the request handlers that    *)
(* read and write them (internal/handlers/transaction_handler.go,          *)
(* internal/service/transaction_service.go,                                *)
(* internal/service/vehicle_service.go).                                   *)
(*                                                                         *)
(* Every request runs on its own goroutine; the only shared state is the   *)
(* store.  A request is modelled as a process that takes one step per      *)
(* store access: the handler's validation and the service's first access   *)
(* form the first step, every later access is a step of its own, and any   *)
(* other request may run in between.  Every store access may fail (the     *)
(* driver returns an error and the store is left as it was).               *)
(***************************************************************************)
EXTENDS Integers, Sequences, FiniteSets, TLC

\* ------------------------------------------------------------------ bounds
NumProcs == 2          \* requests that can be in flight at the same time
MaxTxns == 1           \* transactions ever inserted
MaxCreated == 2        \* transactions ever inserted when only Create requests are served
NumUploads == 2        \* image requests that can be in flight at the same time
NumRegs == 2           \* Register requests that can be in flight at the same time
MaxUsers == 3          \* users ever inserted
MaxFiles == 2          \* files in one image upload request
NumLimiters == 2       \* requests that can be in RateLimitMiddleware at the same time
maxRequests == 2       \* the limit RateLimitMiddleware is set up with
MaxSent == 4           \* requests of one client in one lifetime of its key
MaxIssued == 3         \* files ever stored in the external store

Procs == 1..NumProcs
Uploaders == 1..NumUploads
Limiters == 1..NumLimiters
Clients == {"ip1"}     \* ClientIP of the requests
Registrars == 1..NumRegs
Emails == {"a@example.com", "b@example.com"}
Users == {"u1", "u2", "u3"}
\* The owner of the listed vehicle and the buyer a Create names; the third user is
\* party to no transaction.
Parties == {"u1", "u2"}
Vehicles == {"v1"}
NoVehicle == "v0"      \* a well-formed id that names no stored vehicle
TxnIds == 1..MaxTxns   \* ids a request can name; those above Len(txns) are absent
NotesIn == {"", "note"}
RefIn == "ref1"        \* the transactionReference of a Complete request that passes Validate

\* ------------------------------------------------- models: status constants
TransactionStatusPending == "pending"
TransactionStatusCompleted == "completed"
TransactionStatusCancelled == "cancelled"
TransactionStatusFailed == "failed"

TransactionTypeSale == "sale"

VehicleStatusActive == "active"
VehicleStatusSold == "sold"
VehicleStatusArchived == "archived"

IsValidTransactionStatus(status) ==
    status \in {TransactionStatusPending, TransactionStatusCompleted,
                TransactionStatusCancelled, TransactionStatusFailed}

IsValidVehicleStatus(status) ==
    status \in {VehicleStatusActive, VehicleStatusSold, VehicleStatusArchived}

PaymentMethodCash == "cash"
PaymentMethodBankTransfer == "bank_transfer"
PaymentMethodCard == "card"
PaymentMethodFinancing == "financing"

IsValidPaymentMethod(method) ==
    method \in {PaymentMethodCash, PaymentMethodBankTransfer,
                PaymentMethodCard, PaymentMethodFinancing}

\* The body of a Create request, apart from vehicleId, buyerId and notes: amount,
\* currency, paymentMethod and the paymentDetails the client sent (financedAmount
\* and monthlyPayment included).  interestRate is in percent per year.
CashRequest ==
    [amount |-> 13000, currency |-> "NGN", paymentMethod |-> PaymentMethodCash,
     downPayment |-> 0, financedAmount |-> 0, monthlyPayment |-> 0,
     financingTerms |-> 0, interestRate |-> 0, bankName |-> ""]

\* No Create request (the zero value of the request struct).
NoRequest == [CashRequest EXCEPT !.amount = 0, !.currency = "", !.paymentMethod = ""]

\* ------------------------------------------------ float64 as exact fractions
\* Money and rates are float64 in the code.  They are modelled as exact
\* fractions [num, den] in lowest terms with den > 0, so the arithmetic below is
\* that of the code without its rounding.
RECURSIVE GCD(_, _)
GCD(a, b) == IF b = 0 THEN a ELSE GCD(b, a % b)

Abs(a) == IF a < 0 THEN -a ELSE a

Rat(n, d) ==
    LET g == GCD(Abs(n), Abs(d))
        sign == IF d < 0 THEN -1 ELSE 1
    IN [num |-> sign * (n \div g), den |-> sign * (d \div g)]

RatInt(n) == [num |-> n, den |-> 1]

\* x * y and x / y, cancelling common factors before multiplying
RatMul(x, y) ==
    LET g1 == GCD(Abs(x.num), y.den)
        g2 == GCD(Abs(y.num), x.den)
    IN IF x.num = 0 \/ y.num = 0 THEN RatInt(0)
       ELSE [num |-> (x.num \div g1) * (y.num \div g2),
             den |-> (x.den \div g2) * (y.den \div g1)]

RatDiv(x, y) ==
    RatMul(x, IF y.num < 0 THEN [num |-> -y.den, den |-> -y.num]
                          ELSE [num |-> y.den, den |-> y.num])

RatAdd(x, y) == Rat(x.num * y.den + y.num * x.den, x.den * y.den)

RatSub(x, y) == Rat(x.num * y.den - y.num * x.den, x.den * y.den)

RatPositive(x) == x.num > 0

\* ------------------------------------------------------------------- state
VARIABLES
    vehicles,       \* the vehicles collection: id -> the document without its images
    txns,           \* the transactions collection: a document's _id is its index
    procs,          \* per request goroutine: where it is and the locals it holds
    resp,           \* the HTTP response written by the last step, NoResp if none
    everTerminal,   \* history: ids of transactions that have been completed or cancelled
    cloud,          \* the external object store: the public ids of the images it holds
    images,         \* the images field of each vehicle document: a list of VehicleImage
    uploads,        \* per image request goroutine: where it is and the locals it holds
    upResp,         \* the HTTP response written by the last step of an image request
    users,          \* the users collection, in insertion order: [email]
    regs,           \* per Register goroutine: where it is and the email it registers
    regResp,        \* the HTTP response written by the last step of a Register request
    cache,          \* the Redis cache of GET responses: entries [key, veh, body, outdated]
    cacheResp,      \* the HTTP response written by the last request to a cached route
    ratelimit,      \* the Redis keys ratelimit:<client>: the counter and whether it has a TTL
    limiters,       \* per request goroutine in RateLimitMiddleware: where it is, for whom
    tally           \* history, per client and key lifetime: requests passed on, turned away

\* The transactions and vehicles the transaction engine works on.
engineVars == <<vehicles, txns, procs, resp, everTerminal>>

\* The images of the vehicles and the external store that holds their files.
imageVars == <<cloud, images, uploads, upResp>>

\* The user accounts.
accountVars == <<users, regs, regResp>>

\* The response cache in front of the vehicle routes.
cacheVars == <<cache, cacheResp>>

\* The rate limiter in front of every route.
limitVars == <<ratelimit, limiters, tally>>

vars == <<vehicles, txns, procs, resp, everTerminal, cloud, images, uploads, upResp,
          users, regs, regResp, cache, cacheResp, ratelimit, limiters, tally>>

\* A goroutine's position and locals.  Two fields are history, read by no action:
\* from, the status a Complete's write to the transaction replaced, and raced,
\* whether a Complete that overlapped this one has already returned success.
\* req is the body of the Create request the goroutine is serving.
Idle == [pc |-> "idle", id |-> 0, veh |-> "", user |-> "", buyer |-> "", status |-> "",
         from |-> "", raced |-> FALSE, req |-> NoRequest]

NoResp == [op |-> "none", id |-> 0, veh |-> "", user |-> "", kind |-> "none", raced |-> FALSE,
           buyer |-> "", req |-> NoRequest]

\* The response of operation op on transaction id (or vehicle veh) for caller user.
\* kind is the error kind the handler's status code stands for:
\*   ok (200/201), NotFound (404), Forbidden (403), InvalidState (400: not pending),
\*   ValidationFailed (400: request or precondition rejected), PersistenceFailure (500).
Response(op, id, veh, user, kind) ==
    [op |-> op, id |-> id, veh |-> veh, user |-> user, kind |-> kind, raced |-> FALSE,
     buyer |-> "", req |-> NoRequest]

\* The response to a Create request; the request it answers is kept with it.
CreateResponse(id, vehicleID, sellerID, buyerID, req, kind) ==
    [Response("create", id, vehicleID, sellerID, kind) EXCEPT !.buyer = buyerID, !.req = req]

\* An image request goroutine's position and locals: the vehicle and caller, the
\* multipart files still to handle, the vehicle's images as GetVehicleByID
\* returned them, and the images and public ids uploaded so far.
UploadLocals == [pc |-> "idle", veh |-> "", user |-> "", files |-> << >>, first |-> FALSE,
                 vehicleImages |-> << >>, uploadedImages |-> << >>, uploadedPublicIDs |-> << >>,
                 op |-> "", publicId |-> 0]

\* An image request goroutine that serves no request holds no locals.
UploadIdle == [pc |-> "idle"]

NoUploadResp == [op |-> "none", veh |-> "", user |-> "", kind |-> "none",
                 uploadedPublicIDs |-> << >>]

\* The response of image operation op on vehicle veh for caller user; ids are the
\* public ids the request had stored in the external store when it answered.
UploadResponse(op, veh, user, kind, ids) ==
    [op |-> op, veh |-> veh, user |-> user, kind |-> kind, uploadedPublicIDs |-> ids]

\* A Register goroutine's position and the email of its request.
RegisterIdle == [pc |-> "idle", email |-> ""]

NoRegisterResp ==
    [op |-> "none", email |-> "", kind |-> "none", registered |-> FALSE, inserting |-> FALSE]

\* The response to a Register request for email: ok (201), ValidationFailed
\* (400), Conflict (409) or PersistenceFailure (500).  Two fields are history:
\* registered, whether a user with that email was stored when the request's last
\* store access ran, and inserting, whether that access was the InsertOne.
RegisterResponse(email, kind, registered, inserting) ==
    [op |-> "register", email |-> email, kind |-> kind, registered |-> registered,
     inserting |-> inserting]

NoCacheResp ==
    [op |-> "none", veh |-> "", status |-> 0, hit |-> FALSE, outdated |-> FALSE]

\* A rate-limit key that is not stored, and a goroutine outside the middleware.
NoRate == [count |-> 0, ttl |-> FALSE]

LimiterIdle == [pc |-> "idle"]

\* Nothing has happened for a client since its key was last absent.
NoTally == [sent |-> 0, passed |-> 0, rejected |-> 0, failed |-> FALSE]

\* The vehicle document CreateVehicle stores for owner ownerID: the caller as
\* owner, status active and the request's make, model, year, price and mileage.
ListedVehicle(ownerID) ==
    [ownerId |-> ownerID, status |-> VehicleStatusActive, make |-> "Toyota",
     model |-> "Corolla", year |-> 2020, price |-> 15000, mileage |-> 40000]

Exists(id) == id \in 1..Len(txns)

Terminal(status) == status \in {TransactionStatusCompleted, TransactionStatusCancelled}

\* history bookkeeping for a write that leaves transaction id with status
NoteTerminal(id, status) ==
    everTerminal' = IF Terminal(status) THEN everTerminal \cup {id} ELSE everTerminal

Init ==
    /\ vehicles = [v \in Vehicles |-> ListedVehicle("u1")]
    /\ txns = << >>
    /\ procs = [p \in Procs |-> Idle]
    /\ resp = NoResp
    /\ everTerminal = {}
    /\ cloud = [held |-> {}, issued |-> 0]
    /\ images = [v \in Vehicles |-> << >>]
    /\ uploads = [u \in Uploaders |-> UploadIdle]
    /\ upResp = NoUploadResp
    /\ users = << >>
    /\ regs = [r \in Registrars |-> RegisterIdle]
    /\ regResp = NoRegisterResp
    /\ cache = {}
    /\ cacheResp = NoCacheResp
    /\ ratelimit = [c \in Clients |-> NoRate]
    /\ limiters = [w \in Limiters |-> LimiterIdle]
    /\ tally = [c \in Clients |-> NoTally]

Finish(p, r) ==
    /\ procs' = [procs EXCEPT ![p] = Idle]
    /\ resp' = r

Goto(p, rec) ==
    /\ procs' = [procs EXCEPT ![p] = rec]
    /\ resp' = NoResp


\* --------------------------------------------------- CompleteTransaction
\* The precondition checks CompleteTransaction makes on the document it read.
CompleteCheck(txn, userID) ==
    IF txn.sellerId # userID THEN "Forbidden"
    ELSE IF txn.status # TransactionStatusPending THEN "InvalidState"
    ELSE "ok"

\* The $set of CompleteTransaction's FindOneAndUpdate, applied to the stored document.
CompletedDoc(txn, ref, notes) ==
    [txn EXCEPT !.status = TransactionStatusCompleted,
                !.completedAt = TRUE,
                !.transactionReference = ref,
                !.paidAt = TRUE,
                !.notes = IF notes # "" THEN notes ELSE @]

\* The $set of CompleteTransaction's UpdateOne on the vehicle.
TransferredVehicle(vehicle, buyerID) ==
    [vehicle EXCEPT !.ownerId = buyerID, !.status = VehicleStatusSold]

\* Handler validation, FindOne and the checks on what it returned.
\* The request's transactionReference is "" (rejected by Validate) or RefIn.
CompleteTransaction(p, id, userID) ==
    /\ procs[p].pc = "idle"
    /\ UNCHANGED <<imageVars, accountVars, cacheVars, limitVars>>
    /\ UNCHANGED <<vehicles, txns, everTerminal>>
    /\ \/ Finish(p, Response("complete", id, "", userID, "ValidationFailed"))
       \/ Finish(p, Response("complete", id, "", userID, "PersistenceFailure"))
       \/ /\ ~Exists(id)
          /\ Finish(p, Response("complete", id, "", userID, "NotFound"))
       \/ /\ Exists(id)
          /\ CompleteCheck(txns[id], userID) # "ok"
          /\ Finish(p, Response("complete", id, "", userID, CompleteCheck(txns[id], userID)))
       \/ /\ Exists(id)
          /\ CompleteCheck(txns[id], userID) = "ok"
          /\ Goto(p, [Idle EXCEPT !.pc = "complete_txn", !.id = id, !.user = userID])

\* StartSession, then the FindOneAndUpdate on the transaction inside WithSession.
\* WithSession only binds the session to the context: no transaction is started,
\* so the write is visible at once and is not undone by a later error.
CompleteUpdateTransaction(p, ref, notes) ==
    /\ procs[p].pc = "complete_txn"
    /\ UNCHANGED <<imageVars, accountVars, cacheVars, limitVars>>
    /\ UNCHANGED vehicles
    /\ LET id == procs[p].id IN
       \/ /\ Finish(p, Response("complete", id, "", procs[p].user, "PersistenceFailure"))
          /\ UNCHANGED <<txns, everTerminal>>
       \/ /\ txns' = [txns EXCEPT ![id] = CompletedDoc(txns[id], ref, notes)]
          /\ NoteTerminal(id, txns'[id].status)
          /\ Goto(p, [procs[p] EXCEPT !.pc = "complete_vehicle", !.from = txns[id].status])

\* The UpdateOne on the vehicle inside WithSession, and the return.
CompleteUpdateVehicle(p) ==
    /\ procs[p].pc = "complete_vehicle"
    /\ UNCHANGED <<imageVars, accountVars, cacheVars, limitVars>>
    /\ UNCHANGED <<txns, everTerminal>>
    /\ LET id == procs[p].id
           v == txns[id].vehicleId
       IN
       \/ /\ Finish(p, Response("complete", id, v, procs[p].user, "PersistenceFailure"))
          /\ UNCHANGED vehicles
       \/ /\ vehicles' = [vehicles EXCEPT ![v] = TransferredVehicle(@, txns[id].buyerId)]
          /\ resp' = [Response("complete", id, v, procs[p].user, "ok")
                          EXCEPT !.raced = procs[p].raced]
          /\ procs' = [q \in Procs |->
                          IF q = p THEN Idle
                          ELSE IF /\ procs[q].pc \in {"complete_txn", "complete_vehicle"}
                                  /\ procs[q].id = id
                               THEN [procs[q] EXCEPT !.raced = TRUE]
                               ELSE procs[q]]

\* ----------------------------------------------------- CancelTransaction
CancelCheck(txn, userID) ==
    IF txn.sellerId # userID /\ txn.buyerId # userID THEN "Forbidden"
    ELSE IF txn.status # TransactionStatusPending THEN "InvalidState"
    ELSE "ok"

\* CancelledDoc with the wrong status constant.
CancelledDocFailed(txn, notes) ==
    [txn EXCEPT !.status = TransactionStatusFailed,
                !.cancelledAt = TRUE,
                !.notes = IF notes # "" THEN notes ELSE @]

CancelledDoc(txn, notes) ==
    [txn EXCEPT !.status = TransactionStatusCancelled,
                !.cancelledAt = TRUE,
                !.notes = IF notes # "" THEN notes ELSE @]

CancelTransaction(p, id, userID) ==
    /\ procs[p].pc = "idle"
    /\ UNCHANGED <<imageVars, accountVars, cacheVars, limitVars>>
    /\ UNCHANGED <<vehicles, txns, everTerminal>>
    /\ \/ Finish(p, Response("cancel", id, "", userID, "PersistenceFailure"))
       \/ /\ ~Exists(id)
          /\ Finish(p, Response("cancel", id, "", userID, "NotFound"))
       \/ /\ Exists(id)
          /\ CancelCheck(txns[id], userID) # "ok"
          /\ Finish(p, Response("cancel", id, "", userID, CancelCheck(txns[id], userID)))
       \/ /\ Exists(id)
          /\ CancelCheck(txns[id], userID) = "ok"
          /\ Goto(p, [Idle EXCEPT !.pc = "cancel_write", !.id = id, !.user = userID])

\* CancelUpdateTransaction that deletes the document instead of marking it.
CancelUpdateTransactionDeleting(p, notes) ==
    /\ procs[p].pc = "cancel_write"
    /\ UNCHANGED <<imageVars, accountVars, cacheVars, limitVars>>
    /\ UNCHANGED <<vehicles, everTerminal>>
    /\ LET id == procs[p].id IN
       \/ /\ Finish(p, Response("cancel", id, "", procs[p].user, "PersistenceFailure"))
          /\ UNCHANGED txns
       \/ /\ txns' = SubSeq(txns, 1, id - 1) \o SubSeq(txns, id + 1, Len(txns))
          /\ Finish(p, Response("cancel", id, "", procs[p].user, "ok"))

\* CancelUpdateTransaction that also puts the vehicle back on sale.
CancelUpdateTransactionReleasing(p, notes) ==
    /\ procs[p].pc = "cancel_write"
    /\ UNCHANGED <<imageVars, accountVars, cacheVars, limitVars>>
    /\ LET id == procs[p].id IN
       \/ /\ Finish(p, Response("cancel", id, "", procs[p].user, "PersistenceFailure"))
          /\ UNCHANGED <<txns, everTerminal, vehicles>>
       \/ /\ txns' = [txns EXCEPT ![id] = CancelledDoc(txns[id], notes)]
          /\ vehicles' = [vehicles EXCEPT ![txns[id].vehicleId].status = VehicleStatusActive]
          /\ NoteTerminal(id, txns'[id].status)
          /\ Finish(p, Response("cancel", id, "", procs[p].user, "ok"))

CancelUpdateTransaction(p, notes) ==
    /\ procs[p].pc = "cancel_write"
    /\ UNCHANGED <<imageVars, accountVars, cacheVars, limitVars>>
    /\ UNCHANGED vehicles
    /\ LET id == procs[p].id IN
       \/ /\ Finish(p, Response("cancel", id, "", procs[p].user, "PersistenceFailure"))
          /\ UNCHANGED <<txns, everTerminal>>
       \/ /\ txns' = [txns EXCEPT ![id] = CancelledDoc(txns[id], notes)]
          /\ NoteTerminal(id, txns'[id].status)
          /\ Finish(p, Response("cancel", id, "", procs[p].user, "ok"))

\* ----------------------------------------------------- UpdateTransaction
\* A request body: status ("" when absent), paymentDetails (NoDetails when
\* absent) and notes ("" when absent).
NoDetails ==
    [present |-> FALSE, transactionReference |-> "", paidAt |-> FALSE,
     downPayment |-> 0, financedAmount |-> 0, monthlyPayment |-> RatInt(0),
     financingTerms |-> 0, interestRate |-> 0, bankName |-> ""]
DetailsIn == {NoDetails, [NoDetails EXCEPT !.present = TRUE, !.transactionReference = "ref2"]}
StatusIn == {"", TransactionStatusPending, TransactionStatusCompleted,
             TransactionStatusCancelled, TransactionStatusFailed, "invalid-status"}

\* UpdateTransactionRequest.Validate that only asks for some status.
UpdateTransactionRequestValidAny(status) ==
    status = "" \/ Len(status) > 0

\* UpdateTransactionRequest.Validate
UpdateTransactionRequestValid(status) ==
    status = "" \/ IsValidTransactionStatus(status)

\* UpdateCheck that turns the buyer away and lets a stranger through.
UpdateCheckSellerOnly(txn, userID) ==
    IF txn.sellerId # userID /\ txn.buyerId = userID THEN "Forbidden" ELSE "ok"

UpdateCheck(txn, userID) ==
    IF txn.sellerId # userID /\ txn.buyerId # userID THEN "Forbidden" ELSE "ok"

\* An UpdateTransaction whose payment details also replace the payment method.
UpdatedDocWithMethod(txn, status, details, notes) ==
    [txn EXCEPT !.status = IF status # "" THEN status ELSE @,
                !.paymentMethod = IF details.present THEN PaymentMethodBankTransfer ELSE @,
                !.notes = IF notes # "" THEN notes ELSE @]

\* The $set of UpdateTransaction: status, paymentDetails (the whole sub-document)
\* and notes, each only when the request carries it.
UpdatedDoc(txn, status, details, notes) ==
    [txn EXCEPT !.status = IF status # "" THEN status ELSE @,
                !.transactionReference =
                    IF details.present THEN details.transactionReference ELSE @,
                !.paidAt = IF details.present THEN details.paidAt ELSE @,
                !.downPayment = IF details.present THEN details.downPayment ELSE @,
                !.financedAmount = IF details.present THEN details.financedAmount ELSE @,
                !.monthlyPayment = IF details.present THEN details.monthlyPayment ELSE @,
                !.financingTerms = IF details.present THEN details.financingTerms ELSE @,
                !.interestRate = IF details.present THEN details.interestRate ELSE @,
                !.bankName = IF details.present THEN details.bankName ELSE @,
                !.notes = IF notes # "" THEN notes ELSE @]

\* The request's status is any of StatusIn: one that Validate rejects is answered
\* 400 before the service is called; the others reach the service, whose answers
\* up to the write do not depend on it.
UpdateTransaction(p, id, userID) ==
    /\ procs[p].pc = "idle"
    /\ UNCHANGED <<imageVars, accountVars, cacheVars, limitVars>>
    /\ UNCHANGED <<vehicles, txns, everTerminal>>
    /\ \/ /\ \E status \in StatusIn : ~UpdateTransactionRequestValid(status)
          /\ Finish(p, Response("update", id, "", userID, "ValidationFailed"))
       \/ Finish(p, Response("update", id, "", userID, "PersistenceFailure"))
       \/ /\ ~Exists(id)
          /\ Finish(p, Response("update", id, "", userID, "NotFound"))
       \/ /\ Exists(id)
          /\ UpdateCheck(txns[id], userID) # "ok"
          /\ Finish(p, Response("update", id, "", userID, UpdateCheck(txns[id], userID)))
       \/ /\ Exists(id)
          /\ UpdateCheck(txns[id], userID) = "ok"
          /\ \E status \in StatusIn :
                /\ UpdateTransactionRequestValid(status)
                /\ Goto(p, [Idle EXCEPT !.pc = "update_write", !.id = id,
                                        !.user = userID, !.status = status])

UpdateWriteTransaction(p, details, notes) ==
    /\ procs[p].pc = "update_write"
    /\ UNCHANGED <<imageVars, accountVars, cacheVars, limitVars>>
    /\ UNCHANGED vehicles
    /\ LET id == procs[p].id IN
       \/ /\ Finish(p, Response("update", id, "", procs[p].user, "PersistenceFailure"))
          /\ UNCHANGED <<txns, everTerminal>>
       \/ /\ txns' = [txns EXCEPT ![id] = UpdatedDoc(txns[id], procs[p].status, details, notes)]
          /\ NoteTerminal(id, txns'[id].status)
          /\ Finish(p, Response("update", id, "", procs[p].user, "ok"))

\* ----------------------------------------------------- CreateTransaction
FinancingRequest(amount, downPayment, financingTerms, interestRate, financedAmount) ==
    [CashRequest EXCEPT !.amount = amount, !.paymentMethod = PaymentMethodFinancing,
                        !.downPayment = downPayment, !.financingTerms = financingTerms,
                        !.interestRate = interestRate, !.financedAmount = financedAmount,
                        !.monthlyPayment = financedAmount]

\* Requests of the concurrent specification: one that Validate accepts, one it rejects.
PlainRequestsIn == {CashRequest, [CashRequest EXCEPT !.amount = 0]}

\* Financing requests on both sides of every limit validatePaymentDetails draws
FinancingLimitsIn ==
    {FinancingRequest(a, d, t, r, 0) :
        a \in {0, 13000}, d \in {-1, 0, 1000, 13000, 14000}, t \in {-1, 0, 12}, r \in {-1, 0}}

\* Financing requests that Validate accepts, with and without interest, whose
\* client-supplied financedAmount and monthlyPayment are wrong
FinancingTermsIn ==
    {FinancingRequest(a, d, t, r, f) :
        a \in {13000, 30000}, d \in {1000, 10000}, t \in {2, 12}, r \in {0, 600, 1200},
        f \in {0, 5}}

OtherRequestsIn ==
    {CashRequest,
     [CashRequest EXCEPT !.amount = 0],
     [CashRequest EXCEPT !.amount = -13000],
     [CashRequest EXCEPT !.currency = ""],
     [CashRequest EXCEPT !.paymentMethod = ""],
     [CashRequest EXCEPT !.paymentMethod = "cheque"],
     [CashRequest EXCEPT !.paymentMethod = PaymentMethodCard],
     [CashRequest EXCEPT !.paymentMethod = PaymentMethodBankTransfer],
     [CashRequest EXCEPT !.paymentMethod = PaymentMethodBankTransfer, !.bankName = "bank"]}

CreateRequestsIn == FinancingLimitsIn \cup FinancingTermsIn \cup OtherRequestsIn

\* Requests for the order of Create's checks: a body that passes Validate, one
\* whose amount fails it and one whose payment details fail it.
OrderRequestsIn ==
    PlainRequestsIn \cup {[CashRequest EXCEPT !.paymentMethod = PaymentMethodBankTransfer]}

\* validatePaymentDetails that lets a down payment equal to the amount through.
validatePaymentDetailsUpTo(req) ==
    IF req.paymentMethod = PaymentMethodFinancing THEN
        IF req.downPayment <= 0 THEN "downPayment is required for financing"
        ELSE IF req.downPayment > req.amount THEN "downPayment must be less than total amount"
        ELSE IF req.financingTerms <= 0 THEN "financingTerms is required for financing"
        ELSE IF req.interestRate < 0 THEN "interestRate cannot be negative"
        ELSE ""
    ELSE IF req.paymentMethod = PaymentMethodBankTransfer THEN
        IF req.bankName = "" THEN "bankName is required for bank transfer" ELSE ""
    ELSE ""

\* CreateTransactionRequest.validatePaymentDetails: "" when the details pass,
\* otherwise the error
validatePaymentDetails(req) ==
    IF req.paymentMethod = PaymentMethodFinancing THEN
        IF req.downPayment <= 0 THEN "downPayment is required for financing"
        ELSE IF req.downPayment >= req.amount THEN "downPayment must be less than total amount"
        ELSE IF req.financingTerms <= 0 THEN "financingTerms is required for financing"
        ELSE IF req.interestRate < 0 THEN "interestRate cannot be negative"
        ELSE ""
    ELSE IF req.paymentMethod = PaymentMethodBankTransfer THEN
        IF req.bankName = "" THEN "bankName is required for bank transfer" ELSE ""
    ELSE ""

\* CreateTransactionRequest.Validate for a request whose vehicleId, buyerId and
\* inspectionId are well formed: "" when the request passes, otherwise the error
CreateTransactionRequestValidate(req) ==
    IF req.amount <= 0 THEN "amount must be greater than 0"
    ELSE IF req.currency = "" THEN "currency is required"
    ELSE IF req.paymentMethod = "" THEN "paymentMethod is required"
    ELSE IF ~IsValidPaymentMethod(req.paymentMethod) THEN "invalid paymentMethod value"
    ELSE validatePaymentDetails(req)

\* pow: result *= x, int(n) times
RECURSIVE powLoop(_, _, _, _)
powLoop(x, n, i, result) ==
    IF i < n THEN powLoop(x, n, i + 1, RatMul(result, x)) ELSE result

\* pow whose loop runs one time less.
powFromOne(x, n) == powLoop(x, n, 1, RatInt(1))

pow(x, n) == powLoop(x, n, 0, RatInt(1))

\* calculateFinancingDetails that keeps a financedAmount the client sent.
calculateFinancingDetailsKeeping(txn) ==
    LET financedAmount ==
            IF txn.financedAmount # 0 THEN txn.financedAmount
            ELSE txn.amount - txn.downPayment
        principal == RatInt(financedAmount)
        monthlyInterestRate == RatDiv(RatDiv(RatInt(txn.interestRate), RatInt(100)), RatInt(12))
        months == txn.financingTerms
        compound == pow(RatAdd(RatInt(1), monthlyInterestRate), months)
    IN [txn EXCEPT
          !.financedAmount = financedAmount,
          !.monthlyPayment =
              IF RatPositive(monthlyInterestRate)
              THEN RatDiv(RatMul(principal, RatMul(monthlyInterestRate, compound)),
                          RatSub(compound, RatInt(1)))
              ELSE RatDiv(principal, RatInt(months))]

\* calculateFinancingDetails: the financedAmount and monthlyPayment it stores
calculateFinancingDetails(txn) ==
    LET financedAmount == txn.amount - txn.downPayment
        principal == RatInt(financedAmount)
        monthlyInterestRate == RatDiv(RatDiv(RatInt(txn.interestRate), RatInt(100)), RatInt(12))
        months == txn.financingTerms
        compound == pow(RatAdd(RatInt(1), monthlyInterestRate), months)
    IN [txn EXCEPT
          !.financedAmount = financedAmount,
          !.monthlyPayment =
              IF RatPositive(monthlyInterestRate)
              THEN RatDiv(RatMul(principal, RatMul(monthlyInterestRate, compound)),
                          RatSub(compound, RatInt(1)))
              ELSE RatDiv(principal, RatInt(months))]

\* CreateCheck without the check of the vehicle's status.
CreateCheckAnyStatus(vehicle, sellerID, buyerID) ==
    IF vehicle.ownerId # sellerID THEN "Forbidden"
    ELSE IF buyerID = sellerID THEN "ValidationFailed"
    ELSE "ok"

\* CreateCheck that looks at the buyer before it looks at the vehicle.
CreateCheckBuyerFirst(vehicle, sellerID, buyerID) ==
    IF buyerID = sellerID THEN "ValidationFailed"
    ELSE IF vehicle.ownerId # sellerID THEN "Forbidden"
    ELSE IF vehicle.status # VehicleStatusActive THEN "ValidationFailed"
    ELSE "ok"

\* The checks CreateTransaction makes on the vehicle it read.
CreateCheck(vehicle, sellerID, buyerID) ==
    IF vehicle.ownerId # sellerID THEN "Forbidden"
    ELSE IF vehicle.status # VehicleStatusActive THEN "ValidationFailed"
    ELSE IF buyerID = sellerID THEN "ValidationFailed"
    ELSE "ok"

\* The document CreateTransaction inserts: the request's fields and payment
\* details as sent, then the financing figures when the method is financing.
NewTransaction(vehicleID, sellerID, buyerID, req, notes) ==
    LET transaction ==
            [vehicleId |-> vehicleID, sellerId |-> sellerID, buyerId |-> buyerID,
             type |-> TransactionTypeSale, status |-> TransactionStatusPending,
             createdAt |-> TRUE, completedAt |-> FALSE, cancelledAt |-> FALSE,
             transactionReference |-> "", paidAt |-> FALSE, notes |-> notes,
             amount |-> req.amount, currency |-> req.currency,
             paymentMethod |-> req.paymentMethod,
             downPayment |-> req.downPayment, financedAmount |-> req.financedAmount,
             monthlyPayment |-> RatInt(req.monthlyPayment),
             financingTerms |-> req.financingTerms, interestRate |-> req.interestRate,
             bankName |-> req.bankName]
    IN IF req.paymentMethod = PaymentMethodFinancing
       THEN calculateFinancingDetails(transaction)
       ELSE transaction

\* Creates not yet inserted count against the bound, so that none is left waiting.
CreatesInFlight == Cardinality({q \in Procs : procs[q].pc = "create_insert"})

\* Handler validation, the FindOne on the vehicle and the checks on what it
\* returned.  "vehicle not found" is answered 403 by the handler, like "not the
\* owner".  At most maxTxns transactions are created.
CreateTransaction(p, vehicleID, buyerID, sellerID, req, maxTxns) ==
    /\ procs[p].pc = "idle"
    /\ UNCHANGED <<imageVars, accountVars, cacheVars, limitVars>>
    /\ Len(txns) + CreatesInFlight < maxTxns
    /\ UNCHANGED <<vehicles, txns, everTerminal>>
    /\ \/ /\ CreateTransactionRequestValidate(req) # ""
          /\ Finish(p, CreateResponse(0, vehicleID, sellerID, buyerID, req, "ValidationFailed"))
       \/ /\ CreateTransactionRequestValidate(req) = ""
          /\ \/ Finish(p, CreateResponse(0, vehicleID, sellerID, buyerID, req,
                                         "PersistenceFailure"))
             \/ /\ vehicleID \notin Vehicles
                /\ Finish(p, CreateResponse(0, vehicleID, sellerID, buyerID, req, "Forbidden"))
             \/ /\ vehicleID \in Vehicles
                /\ CreateCheck(vehicles[vehicleID], sellerID, buyerID) # "ok"
                /\ Finish(p, CreateResponse(0, vehicleID, sellerID, buyerID, req,
                                            CreateCheck(vehicles[vehicleID], sellerID, buyerID)))
             \/ /\ vehicleID \in Vehicles
                /\ CreateCheck(vehicles[vehicleID], sellerID, buyerID) = "ok"
                /\ Goto(p, [Idle EXCEPT !.pc = "create_insert", !.veh = vehicleID,
                                        !.user = sellerID, !.buyer = buyerID, !.req = req])

\* CreateInsertTransaction that puts the new document in front of the others.
CreateInsertTransactionInFront(p, notes) ==
    /\ procs[p].pc = "create_insert"
    /\ UNCHANGED <<imageVars, accountVars, cacheVars, limitVars>>
    /\ UNCHANGED <<vehicles, everTerminal>>
    /\ LET q == procs[p] IN
       \/ /\ Finish(p, CreateResponse(0, q.veh, q.user, q.buyer, q.req, "PersistenceFailure"))
          /\ UNCHANGED txns
       \/ /\ txns' = <<NewTransaction(q.veh, q.user, q.buyer, q.req, notes)>> \o txns
          /\ Finish(p, CreateResponse(Len(txns) + 1, q.veh, q.user, q.buyer, q.req, "ok"))

\* InsertOne and the return.
CreateInsertTransaction(p, notes) ==
    /\ procs[p].pc = "create_insert"
    /\ UNCHANGED <<imageVars, accountVars, cacheVars, limitVars>>
    /\ UNCHANGED <<vehicles, everTerminal>>
    /\ LET q == procs[p] IN
       \/ /\ Finish(p, CreateResponse(0, q.veh, q.user, q.buyer, q.req, "PersistenceFailure"))
          /\ UNCHANGED txns
       \/ /\ txns' = Append(txns, NewTransaction(q.veh, q.user, q.buyer, q.req, notes))
          /\ Finish(p, CreateResponse(Len(txns) + 1, q.veh, q.user, q.buyer, q.req, "ok"))

\* ------------------------------------------- UpdateVehicle, DeleteVehicle
VehicleStatusIn == {"", VehicleStatusActive, VehicleStatusSold, VehicleStatusArchived}

\* FindOne with filter {_id, ownerId}
OwnedBy(vehicleID, ownerID) ==
    vehicleID \in Vehicles /\ vehicles[vehicleID].ownerId = ownerID

UpdateVehicle(p, vehicleID, ownerID) ==
    /\ procs[p].pc = "idle"
    /\ UNCHANGED <<imageVars, accountVars, cacheVars, limitVars>>
    /\ UNCHANGED <<vehicles, txns, everTerminal>>
    /\ \/ Finish(p, Response("updateVehicle", 0, vehicleID, ownerID, "PersistenceFailure"))
       \/ /\ ~OwnedBy(vehicleID, ownerID)
          /\ Finish(p, Response("updateVehicle", 0, vehicleID, ownerID, "NotFound"))
       \/ /\ OwnedBy(vehicleID, ownerID)
          /\ Goto(p, [Idle EXCEPT !.pc = "vehicle_write", !.veh = vehicleID, !.user = ownerID])

\* The images of an UpdateVehicleRequest: absent (a nil slice) or a list.
NoImages == [present |-> FALSE, list |-> << >>]

\* An UpdateVehicleRequest that carries nothing: every field has its zero value.
NoVehicleRequest ==
    [make |-> "", model |-> "", year |-> 0, price |-> 0, mileage |-> 0, status |-> "",
     images |-> NoImages]

\* The request of a client that sends the whole form back: the price and mileage
\* of the listing as they are, and a status.
FormRequest(status) ==
    [NoVehicleRequest EXCEPT !.price = 15000, !.mileage = 40000, !.status = status]

FormRequestsIn == {FormRequest(status) : status \in VehicleStatusIn}

\* The request the image handlers build: the images and nothing else.
ImagesRequest(list) ==
    [NoVehicleRequest EXCEPT !.images = [present |-> TRUE, list |-> list]]

\* UpdateVehicleRequest.Validate: "" when the request passes, else the error.
UpdateVehicleRequestValidate(req) ==
    IF req.year # 0 /\ (req.year < 1900 \/ req.year > 2100)
        THEN "year must be between 1900 and 2100"
    ELSE IF req.price < 0 THEN "price must be non-negative"
    ELSE IF req.mileage < 0 THEN "mileage must be non-negative"
    ELSE IF req.status # "" /\ ~IsValidVehicleStatus(req.status) THEN "invalid vehicle status"
    ELSE ""

\* The update document of UpdateVehicle, applied to the stored document: make,
\* model and status when not empty, year when not 0, price and mileage when not
\* negative.
UpdateVehicleSet(vehicle, req) ==
    [vehicle EXCEPT !.make = IF req.make # "" THEN req.make ELSE @,
                    !.model = IF req.model # "" THEN req.model ELSE @,
                    !.year = IF req.year # 0 THEN req.year ELSE @,
                    !.price = IF req.price >= 0 THEN req.price ELSE @,
                    !.mileage = IF req.mileage >= 0 THEN req.mileage ELSE @,
                    !.status = IF req.status # "" THEN req.status ELSE @]

\* The images of the update document, applied to the stored list.
UpdateImagesSet(list, req) ==
    IF req.images.present THEN req.images.list ELSE list

\* UpdateOne with filter {_id} alone, then GetVehicleByID for the response.
\* req is the request, one that Validate accepted before the FindOne.
UpdateVehicleWrite(p, req) ==
    /\ procs[p].pc = "vehicle_write"
    /\ UNCHANGED <<imageVars, accountVars, cacheVars, limitVars>>
    /\ UNCHANGED <<txns, everTerminal>>
    /\ LET v == procs[p].veh IN
       \/ /\ Finish(p, Response("updateVehicle", 0, v, procs[p].user, "PersistenceFailure"))
          /\ UNCHANGED vehicles
       \/ /\ UpdateVehicleRequestValidate(req) = ""
          /\ vehicles' = [vehicles EXCEPT ![v] = UpdateVehicleSet(@, req)]
          /\ \E kind \in {"ok", "PersistenceFailure"} :
                Finish(p, Response("updateVehicle", 0, v, procs[p].user, kind))

\* DeleteVehicle with filter {_id} alone: any caller archives the vehicle.
DeleteVehicleOfAnyone(p, vehicleID, ownerID) ==
    /\ procs[p].pc = "idle"
    /\ UNCHANGED <<imageVars, accountVars, cacheVars, limitVars>>
    /\ UNCHANGED <<txns, everTerminal>>
    /\ \/ /\ Finish(p, Response("deleteVehicle", 0, vehicleID, ownerID, "PersistenceFailure"))
          /\ UNCHANGED vehicles
       \/ /\ vehicleID \in Vehicles
          /\ vehicles' = [vehicles EXCEPT ![vehicleID].status = VehicleStatusArchived]
          /\ Finish(p, Response("deleteVehicle", 0, vehicleID, ownerID, "ok"))

\* One UpdateOne with filter {_id, ownerId}: a soft delete.
DeleteVehicle(p, vehicleID, ownerID) ==
    /\ procs[p].pc = "idle"
    /\ UNCHANGED <<imageVars, accountVars, cacheVars, limitVars>>
    /\ UNCHANGED <<txns, everTerminal>>
    /\ \/ /\ Finish(p, Response("deleteVehicle", 0, vehicleID, ownerID, "PersistenceFailure"))
          /\ UNCHANGED vehicles
       \/ /\ ~OwnedBy(vehicleID, ownerID)
          /\ Finish(p, Response("deleteVehicle", 0, vehicleID, ownerID, "NotFound"))
          /\ UNCHANGED vehicles
       \/ /\ OwnedBy(vehicleID, ownerID)
          /\ vehicles' = [vehicles EXCEPT ![vehicleID].status = VehicleStatusArchived]
          /\ Finish(p, Response("deleteVehicle", 0, vehicleID, ownerID, "ok"))

\* ---------------------------------------------------- UploadVehicleImages
maxImages == 10

\* The multipart files of a request: "image" passes ValidateImageFile, "text" does not.
FileKinds == {"image", "text"}

RECURSIVE SeqsUpTo(_, _)
SeqsUpTo(S, n) ==
    IF n = 0 THEN {<< >>}
    ELSE LET shorter == SeqsUpTo(S, n - 1)
         IN shorter \cup {Append(q, x) : q \in {r \in shorter : Len(r) = n - 1}, x \in S}

FilesIn == SeqsUpTo(FileKinds, MaxFiles)

Range(q) == {q[i] : i \in 1..Len(q)}

RECURSIVE FilesWaiting(_)
\* Files of the requests in U that are not uploaded yet: they count against the bound.
FilesWaiting(U) ==
    IF U = {} THEN 0
    ELSE LET u == CHOOSE x \in U : TRUE
         IN (IF uploads[u].pc = "idle" THEN 0 ELSE Len(uploads[u].files))
            + FilesWaiting(U \ {u})

UploadFinish(u, r) ==
    /\ uploads' = [uploads EXCEPT ![u] = UploadIdle]
    /\ upResp' = r

UploadGoto(u, rec) ==
    /\ uploads' = [uploads EXCEPT ![u] = rec]
    /\ upResp' = NoUploadResp

\* rollbackUploads: one DeleteImage per public id, its error discarded.  The ids
\* in left are those whose DeleteImage failed (all of them when the request's
\* 60 s context, which the deletes share with the uploads, has expired).
rollbackUploads(publicIDs, left) ==
    cloud' = [cloud EXCEPT !.held = (@ \ Range(publicIDs)) \cup left]

\* GetVehicleByID, the ownership check, the form and the image limit.
UploadVehicleImages(u, vehicleID, userID, files) ==
    /\ uploads[u].pc = "idle"
    /\ UNCHANGED <<engineVars, accountVars, cacheVars, limitVars>>
    /\ cloud.issued + FilesWaiting(Uploaders) + Len(files) <= MaxIssued
    /\ UNCHANGED <<cloud, images>>
    /\ LET answer(kind) == UploadFinish(u, UploadResponse("upload", vehicleID, userID, kind, << >>))
       IN
       \/ answer("NotFound")
       \/ /\ vehicleID \in Vehicles
          /\ vehicles[vehicleID].ownerId # userID
          /\ answer("Forbidden")
       \/ /\ vehicleID \in Vehicles
          /\ vehicles[vehicleID].ownerId = userID
          /\ \/ answer("ValidationFailed")
             \/ /\ Len(files) = 0
                /\ answer("ValidationFailed")
             \/ /\ Len(files) > 0
                /\ Len(images[vehicleID]) + Len(files) > maxImages
                /\ answer("ValidationFailed")
             \/ /\ Len(files) > 0
                /\ Len(images[vehicleID]) + Len(files) <= maxImages
                /\ UploadGoto(u, [UploadLocals EXCEPT !.pc = "upload_file", !.veh = vehicleID,
                                                    !.user = userID, !.files = files,
                                                    !.first = TRUE,
                                                    !.vehicleImages = images[vehicleID]])

\* One turn of the loop over the files: Open, ValidateImageFile and UploadImage.
UploadFile(u) ==
    /\ uploads[u].pc = "upload_file"
    /\ UNCHANGED <<engineVars, accountVars, cacheVars, limitVars>>
    /\ UNCHANGED images
    /\ LET q == uploads[u]
           publicID == cloud.issued + 1
           isPrimary == q.first /\ Len(q.vehicleImages) = 0
           failed(kind) ==
               /\ \E left \in SUBSET Range(q.uploadedPublicIDs) :
                     rollbackUploads(q.uploadedPublicIDs, left)
               /\ UploadFinish(u, UploadResponse("upload", q.veh, q.user, kind,
                                                 q.uploadedPublicIDs))
       IN
       \/ failed("ValidationFailed")
       \/ /\ Head(q.files) # "image"
          /\ failed("ValidationFailed")
       \/ /\ Head(q.files) = "image"
          /\ failed("PersistenceFailure")
       \/ /\ Head(q.files) = "image"
          /\ cloud' = [held |-> cloud.held \cup {publicID}, issued |-> publicID]
          /\ UploadGoto(u, [q EXCEPT
                 !.pc = IF Len(q.files) = 1 THEN "upload_find" ELSE "upload_file",
                 !.files = Tail(q.files),
                 !.first = FALSE,
                 !.uploadedImages = Append(@, [publicId |-> publicID, isPrimary |-> isPrimary]),
                 !.uploadedPublicIDs = Append(@, publicID)])

\* The answer to a request whose call of VehicleService.UpdateVehicle returned an error.
UploadUpdateFailed(u) ==
    /\ \E left \in SUBSET Range(uploads[u].uploadedPublicIDs) :
          rollbackUploads(uploads[u].uploadedPublicIDs, left)
    /\ UploadFinish(u, UploadResponse("upload", uploads[u].veh, uploads[u].user,
                                      "PersistenceFailure", uploads[u].uploadedPublicIDs))

\* VehicleService.UpdateVehicle: the FindOne with filter {_id, ownerId}.
UploadFindVehicle(u) ==
    /\ uploads[u].pc = "upload_find"
    /\ UNCHANGED <<engineVars, accountVars, cacheVars, limitVars>>
    /\ UNCHANGED images
    /\ \/ UploadUpdateFailed(u)
       \/ /\ ~OwnedBy(uploads[u].veh, uploads[u].user)
          /\ UploadUpdateFailed(u)
       \/ /\ OwnedBy(uploads[u].veh, uploads[u].user)
          /\ UNCHANGED cloud
          /\ UploadGoto(u, [uploads[u] EXCEPT !.pc = "upload_write"])

\* VehicleService.UpdateVehicle: the UpdateOne with filter {_id}, for a request
\* that carries as images the list the handler read with the uploaded images
\* appended.
UploadWriteVehicle(u) ==
    /\ uploads[u].pc = "upload_write"
    /\ UNCHANGED <<txns, procs, resp, everTerminal, accountVars, cacheVars, limitVars>>
    /\ \/ /\ UploadUpdateFailed(u)
          /\ UNCHANGED <<vehicles, images>>
       \/ /\ LET v == uploads[u].veh
                 req == ImagesRequest(uploads[u].vehicleImages \o uploads[u].uploadedImages)
             IN /\ vehicles' = [vehicles EXCEPT ![v] = UpdateVehicleSet(@, req)]
                /\ images' = [images EXCEPT ![v] = UpdateImagesSet(@, req)]
          /\ UNCHANGED cloud
          /\ UploadGoto(u, [uploads[u] EXCEPT !.pc = "upload_fetch"])

\* VehicleService.UpdateVehicle: the GetVehicleByID of the updated vehicle, and
\* the handler's answer.
UploadFetchVehicle(u) ==
    /\ uploads[u].pc = "upload_fetch"
    /\ UNCHANGED <<engineVars, accountVars, cacheVars, limitVars>>
    /\ UNCHANGED images
    /\ \/ UploadUpdateFailed(u)
       \/ /\ UNCHANGED cloud
          /\ UploadFinish(u, UploadResponse("upload", uploads[u].veh, uploads[u].user, "ok",
                                            uploads[u].uploadedPublicIDs))

\* ------------------------------------- DeleteVehicleImage, SetPrimaryImage
\* The index of the first image of list with public id publicID, 0 if none.
imageIndex(list, publicID) ==
    IF \E i \in 1..Len(list) : list[i].publicId = publicID
    THEN CHOOSE i \in 1..Len(list) :
            /\ list[i].publicId = publicID
            /\ \A j \in 1..(i - 1) : list[j].publicId # publicID
    ELSE 0

hasPrimary(list) == \E i \in 1..Len(list) : list[i].isPrimary

\* DeleteVehicleImage that leaves the remaining images as they are.
WithoutImageAsIs(list, i) ==
    SubSeq(list, 1, i - 1) \o SubSeq(list, i + 1, Len(list))

\* DeleteVehicleImage: the list without its image i; when images remain and none
\* is primary, the first one is made primary.
WithoutImage(list, i) ==
    LET rest == SubSeq(list, 1, i - 1) \o SubSeq(list, i + 1, Len(list))
    IN IF Len(rest) > 0 /\ ~hasPrimary(rest)
       THEN [rest EXCEPT ![1].isPrimary = TRUE]
       ELSE rest

\* SetPrimaryImage: the images with public id publicID primary, the others not.
WithPrimary(list, publicID) ==
    [i \in 1..Len(list) |-> [list[i] EXCEPT !.isPrimary = (list[i].publicId = publicID)]]

ImageOpName(op) == IF op = "delete" THEN "deleteImage" ELSE "setPrimary"

\* The answer of image handler op to its caller.
ImageAnswer(u, op, vehicleID, userID, kind) ==
    UploadFinish(u, UploadResponse(ImageOpName(op), vehicleID, userID, kind, << >>))

\* The start of DeleteVehicleImage (op "delete") and SetPrimaryImage (op
\* "primary"), which is the same: GetVehicleByID, the ownership check and the
\* search for the image.  SetPrimaryImage then has its list and calls
\* UpdateVehicle; DeleteVehicleImage first deletes from the external store.
ImageRequest(u, op, vehicleID, publicID, userID) ==
    /\ UNCHANGED <<cloud, images>>
    /\ \/ ImageAnswer(u, op, vehicleID, userID, "NotFound")
       \/ /\ vehicleID \in Vehicles
          /\ vehicles[vehicleID].ownerId # userID
          /\ ImageAnswer(u, op, vehicleID, userID, "Forbidden")
       \/ /\ vehicleID \in Vehicles
          /\ vehicles[vehicleID].ownerId = userID
          /\ imageIndex(images[vehicleID], publicID) = 0
          /\ ImageAnswer(u, op, vehicleID, userID, "NotFound")
       \/ /\ vehicleID \in Vehicles
          /\ vehicles[vehicleID].ownerId = userID
          /\ imageIndex(images[vehicleID], publicID) # 0
          /\ UploadGoto(u, [UploadLocals EXCEPT
                 !.pc = IF op = "delete" THEN "delete_cloud" ELSE "images_find",
                 !.op = op, !.veh = vehicleID, !.user = userID, !.publicId = publicID,
                 !.vehicleImages = IF op = "delete" THEN images[vehicleID]
                                   ELSE WithPrimary(images[vehicleID], publicID)])

DeleteVehicleImage(u, vehicleID, publicID, userID) ==
    /\ uploads[u].pc = "idle"
    /\ UNCHANGED <<engineVars, accountVars, cacheVars, limitVars>>
    /\ ImageRequest(u, "delete", vehicleID, publicID, userID)

SetPrimaryImage(u, vehicleID, publicID, userID) ==
    /\ uploads[u].pc = "idle"
    /\ UNCHANGED <<engineVars, accountVars, cacheVars, limitVars>>
    /\ ImageRequest(u, "primary", vehicleID, publicID, userID)

\* DeleteVehicleImage: DeleteImage on the external store, then the new list.
DeleteCloudImage(u) ==
    /\ uploads[u].pc = "delete_cloud"
    /\ UNCHANGED <<engineVars, accountVars, cacheVars, limitVars>>
    /\ UNCHANGED images
    /\ LET q == uploads[u] IN
       \/ /\ UNCHANGED cloud
          /\ ImageAnswer(u, q.op, q.veh, q.user, "PersistenceFailure")
       \/ /\ cloud' = [cloud EXCEPT !.held = @ \ {q.publicId}]
          /\ UploadGoto(u, [q EXCEPT
                 !.pc = "images_find",
                 !.vehicleImages = WithoutImage(@, imageIndex(@, q.publicId))])

\* VehicleService.UpdateVehicle as the two handlers call it: the FindOne with
\* filter {_id, ownerId}.
ImagesFindVehicle(u) ==
    /\ uploads[u].pc = "images_find"
    /\ UNCHANGED <<engineVars, accountVars, cacheVars, limitVars>>
    /\ UNCHANGED <<cloud, images>>
    /\ LET q == uploads[u] IN
       \/ ImageAnswer(u, q.op, q.veh, q.user, "PersistenceFailure")
       \/ /\ ~OwnedBy(q.veh, q.user)
          /\ ImageAnswer(u, q.op, q.veh, q.user, "PersistenceFailure")
       \/ /\ OwnedBy(q.veh, q.user)
          /\ UploadGoto(u, [q EXCEPT !.pc = "images_write"])

\* The UpdateOne with filter {_id}, for a request that carries the handler's list.
ImagesWriteVehicle(u) ==
    /\ uploads[u].pc = "images_write"
    /\ UNCHANGED <<txns, procs, resp, everTerminal, accountVars, cacheVars, limitVars>>
    /\ UNCHANGED cloud
    /\ LET q == uploads[u]
           req == ImagesRequest(q.vehicleImages)
       IN
       \/ /\ UNCHANGED <<vehicles, images>>
          /\ ImageAnswer(u, q.op, q.veh, q.user, "PersistenceFailure")
       \/ /\ vehicles' = [vehicles EXCEPT ![q.veh] = UpdateVehicleSet(@, req)]
          /\ images' = [images EXCEPT ![q.veh] = UpdateImagesSet(@, req)]
          /\ UploadGoto(u, [q EXCEPT !.pc = "images_fetch"])

\* The GetVehicleByID of the updated vehicle, and the handler's answer.
ImagesFetchVehicle(u) ==
    /\ uploads[u].pc = "images_fetch"
    /\ UNCHANGED <<engineVars, accountVars, cacheVars, limitVars>>
    /\ UNCHANGED <<cloud, images>>
    /\ \E kind \in {"ok", "PersistenceFailure"} :
          ImageAnswer(u, uploads[u].op, uploads[u].veh, uploads[u].user, kind)

\* ------------------------------------------------------ UserService.Register
\* FindOne with filter {email}
EmailRegistered(email) == \E i \in 1..Len(users) : users[i].email = email

\* The unique index idx_users_email_unique on users.email: an insert of a
\* document whose email is already stored is refused with a duplicate key error.
UniqueEmailIndexAdmits(email) == ~EmailRegistered(email)

RegistersInFlight == Cardinality({q \in Registrars : regs[q].pc = "register_insert"})

RegisterFinish(r, answer) ==
    /\ regs' = [regs EXCEPT ![r] = RegisterIdle]
    /\ regResp' = answer

\* The handler's binding of the body, the FindOne and HashPassword.
Register(r, email) ==
    /\ regs[r].pc = "idle"
    /\ UNCHANGED <<engineVars, imageVars, cacheVars, limitVars>>
    /\ Len(users) + RegistersInFlight < MaxUsers
    /\ UNCHANGED users
    /\ \/ RegisterFinish(r, RegisterResponse(email, "ValidationFailed", EmailRegistered(email),
                                             FALSE))
       \/ RegisterFinish(r, RegisterResponse(email, "PersistenceFailure", EmailRegistered(email),
                                             FALSE))
       \/ /\ EmailRegistered(email)
          /\ RegisterFinish(r, RegisterResponse(email, "Conflict", TRUE, FALSE))
       \/ /\ ~EmailRegistered(email)
          /\ regs' = [regs EXCEPT ![r] = [pc |-> "register_insert", email |-> email]]
          /\ regResp' = NoRegisterResp

\* RegisterInsert that takes a failed InsertOne for a success.
RegisterInsertIgnoringError(r) ==
    /\ regs[r].pc = "register_insert"
    /\ UNCHANGED <<engineVars, imageVars, cacheVars, limitVars>>
    /\ LET email == regs[r].email IN
       \/ /\ UNCHANGED users
          /\ RegisterFinish(r, RegisterResponse(email, "ok", EmailRegistered(email), TRUE))
       \/ /\ UniqueEmailIndexAdmits(email)
          /\ users' = Append(users, [email |-> email])
          /\ \E kind \in {"ok", "PersistenceFailure"} :
                RegisterFinish(r, RegisterResponse(email, kind, EmailRegistered(email), TRUE))

\* InsertOne, GenerateToken and the answer.  An insert the index refuses is an
\* error like any other: "failed to create user", answered 500.
RegisterInsert(r) ==
    /\ regs[r].pc = "register_insert"
    /\ UNCHANGED <<engineVars, imageVars, cacheVars, limitVars>>
    /\ LET email == regs[r].email IN
       \/ /\ UNCHANGED users
          /\ RegisterFinish(r, RegisterResponse(email, "PersistenceFailure",
                                                EmailRegistered(email), TRUE))
       \/ /\ UniqueEmailIndexAdmits(email)
          /\ users' = Append(users, [email |-> email])
          /\ \E kind \in {"ok", "PersistenceFailure"} :
                RegisterFinish(r, RegisterResponse(email, kind, EmailRegistered(email), TRUE))

\* --------------------------------------------- CacheMiddleware, CacheBuster
\* Strings that are hashed or matched are sequences of characters.
Alphabet ==
    <<"0", "1", "2", "3", "4", "5", "6", "7", "8", "9", "a", "b", "c", "d", "e", "f",
      "h", "i", "l", "p", "s", "v", "/", ":", "G", "E", "T">>

HexDigits == SubSeq(Alphabet, 1, 16)

CharCode(c) == CHOOSE i \in 1..Len(Alphabet) : Alphabet[i] = c

IdChars(v) == IF v = "v1" THEN <<"v", "1">> ELSE <<"v", "0">>

\* c.Request.URL.Path of /api/v1/vehicles/:id
VehiclePath(v) ==
    <<"/", "a", "p", "i", "/", "v", "1", "/", "v", "e", "h", "i", "c", "l", "e", "s", "/">>
        \o IdChars(v)

DigestWidth == 65536

RECURSIVE Digest(_, _)
\* sha256.Sum256 stands as a 16-bit digest of the characters.
Digest(text, h) ==
    IF text = << >> THEN h
    ELSE Digest(Tail(text), (h * 31 + CharCode(Head(text))) % DigestWidth)

\* hex.EncodeToString
HexEncode(n) ==
    <<HexDigits[((n \div 4096) % 16) + 1], HexDigits[((n \div 256) % 16) + 1],
      HexDigits[((n \div 16) % 16) + 1], HexDigits[(n % 16) + 1]>>

CachePrefix == <<"c", "a", "c", "h", "e", ":">>

generateCacheKey(method, path, rawQuery, userID) ==
    LET keyString == method \o <<":">> \o path \o <<":">> \o rawQuery \o <<":">> \o userID
    IN CachePrefix \o HexEncode(Digest(keyString, 7))

\* strings.Contains on sequences of characters
Contains(text, sub) ==
    \E i \in 0..(Len(text) - Len(sub)) : SubSeq(text, i + 1, i + Len(sub)) = sub

\* Redis KEYS with the glob pattern cache:*<basePath>*
KeysOfPattern(basePath) ==
    {e.key : e \in {x \in cache :
                      /\ SubSeq(x.key, 1, Len(CachePrefix)) = CachePrefix
                      /\ Contains(SubSeq(x.key, Len(CachePrefix) + 1, Len(x.key)), basePath)}}

\* setupVehicleRoutes, statement by statement: a route with its own handlers, or
\* Use, which adds a handler to the group.
vehicleRoutes ==
    <<[use |-> FALSE, method |-> "GET", path |-> "", handlers |-> <<"CacheMiddleware", "ListVehicles">>],
      [use |-> FALSE, method |-> "GET", path |-> "/:id", handlers |-> <<"CacheMiddleware", "GetVehicle">>],
      [use |-> FALSE, method |-> "POST", path |-> "", handlers |-> <<"AuthMiddleware", "CreateVehicle">>],
      [use |-> FALSE, method |-> "GET", path |-> "/my", handlers |-> <<"AuthMiddleware", "GetMyVehicles">>],
      [use |-> FALSE, method |-> "PUT", path |-> "/:id", handlers |-> <<"AuthMiddleware", "UpdateVehicle">>],
      [use |-> FALSE, method |-> "DELETE", path |-> "/:id",
       handlers |-> <<"AuthMiddleware", "RequireAdminOrDealer", "DeleteVehicle">>],
      [use |-> TRUE, method |-> "", path |-> "", handlers |-> <<"CacheBuster">>]>>

RECURSIVE GroupHandlers(_, _)
\* The handlers the group has been given by Use in the first n statements.
GroupHandlers(statements, n) ==
    IF n = 0 THEN << >>
    ELSE GroupHandlers(statements, n - 1)
            \o (IF statements[n].use THEN statements[n].handlers ELSE << >>)

\* The handlers gin runs for a route: those of the group when the route was
\* registered, then the route's own.
HandlersChain(statements, method, path) ==
    LET n == CHOOSE i \in 1..Len(statements) :
                 ~statements[i].use /\ statements[i].method = method /\ statements[i].path = path
    IN GroupHandlers(statements, n - 1) \o statements[n].handlers

CacheResponse(op, v, status, hit, outdated) ==
    [op |-> op, veh |-> v, status |-> status, hit |-> hit, outdated |-> outdated]

\* GET /vehicles/:id.  The route is public: no userID is set.  A hit answers with
\* the stored response; a miss runs GetVehicle and stores a 2xx response.
\* Every call of Redis may fail: a failed Get is a miss, a failed Set is dropped.
CachedGetVehicle(v) ==
    /\ UNCHANGED <<engineVars, imageVars, accountVars, limitVars>>
    /\ LET key == generateCacheKey(<<"G", "E", "T">>, VehiclePath(v), << >>, << >>)
           cached == "CacheMiddleware" \in Range(HandlersChain(vehicleRoutes, "GET", "/:id"))
       IN
       \/ /\ cached
          /\ \E e \in cache :
                /\ e.key = key
                /\ cacheResp' = CacheResponse("get", v, 200, TRUE, e.outdated)
          /\ UNCHANGED cache
       \/ /\ cacheResp' = CacheResponse("get", v, 500, FALSE, FALSE)
          /\ UNCHANGED cache
       \/ /\ v \notin Vehicles
          /\ cacheResp' = CacheResponse("get", v, 404, FALSE, FALSE)
          /\ UNCHANGED cache
       \/ /\ v \in Vehicles
          /\ cacheResp' = CacheResponse("get", v, 200, FALSE, FALSE)
          /\ \/ UNCHANGED cache
             \/ /\ cached
                /\ cache' = {e \in cache : e.key # key}
                               \cup {[key |-> key, veh |-> v, body |-> vehicles[v],
                                      outdated |-> FALSE]}

\* What follows the handler of a modifying request on vehicle v that answered
\* 2xx: CacheBuster, when the route's chain holds it, deletes the keys its
\* pattern finds (nothing when KEYS fails), and the entries of v that stay are
\* noted as older than the modification.
AfterModifying(method, v) ==
    LET busted ==
            IF "CacheBuster" \in Range(HandlersChain(vehicleRoutes, method, "/:id"))
            THEN {{}, KeysOfPattern(VehiclePath(v))}
            ELSE {{}}
    IN \E keys \in busted :
          cache' = {IF e.veh = v THEN [e EXCEPT !.outdated = TRUE] ELSE e :
                       e \in {x \in cache : x.key \notin keys}}

\* PUT /vehicles/:id, with the handler's store accesses taken as one step.
PutVehicle(v, ownerID, status) ==
    /\ UNCHANGED <<txns, procs, resp, everTerminal, imageVars, accountVars, limitVars>>
    /\ \/ /\ cacheResp' = CacheResponse("put", v, 500, FALSE, FALSE)
          /\ UNCHANGED <<vehicles, cache>>
       \/ /\ ~OwnedBy(v, ownerID)
          /\ cacheResp' = CacheResponse("put", v, 404, FALSE, FALSE)
          /\ UNCHANGED <<vehicles, cache>>
       \/ /\ OwnedBy(v, ownerID)
          /\ vehicles' = [vehicles EXCEPT ![v] = UpdateVehicleSet(@, FormRequest(status))]
          /\ cacheResp' = CacheResponse("put", v, 200, FALSE, FALSE)
          /\ AfterModifying("PUT", v)

\* The TTL of an entry passes.
CacheExpire ==
    /\ UNCHANGED <<engineVars, imageVars, accountVars, cacheResp, limitVars>>
    /\ \E e \in cache : cache' = cache \ {e}

\* ----------------------------------------------------- RateLimitMiddleware
\* The request is passed on to the handlers (c.Next) or answered 429 (c.Abort).
\* failed says that it is passed on because a Redis call returned an error.
RateLimitDone(w, outcome, failed) ==
    LET c == limiters[w].client IN
    /\ limiters' = [limiters EXCEPT ![w] = LimiterIdle]
    /\ tally' = [tally EXCEPT
          ![c].passed = IF outcome = "next" THEN @ + 1 ELSE @,
          ![c].rejected = IF outcome = "abort" THEN @ + 1 ELSE @,
          ![c].failed = @ \/ failed]

\* A request of client arrives: the key is looked up with Exists.
RateLimitExists(w, client) ==
    /\ limiters[w].pc = "idle"
    /\ UNCHANGED <<engineVars, imageVars, accountVars, cacheVars>>
    /\ tally[client].sent < MaxSent
    /\ UNCHANGED ratelimit
    /\ \/ /\ limiters' = [limiters EXCEPT ![w] = LimiterIdle]
          /\ tally' = [tally EXCEPT ![client].sent = @ + 1, ![client].passed = @ + 1,
                                     ![client].failed = TRUE]
       \/ /\ limiters' = [limiters EXCEPT ![w] =
                 [pc |-> IF ratelimit[client].count > 0 THEN "increment" ELSE "set",
                  client |-> client]]
          /\ tally' = [tally EXCEPT ![client].sent = @ + 1]

\* The key did not exist: Set it to 1 with the window as TTL, and pass on.
RateLimitSet(w) ==
    /\ limiters[w].pc = "set"
    /\ UNCHANGED <<engineVars, imageVars, accountVars, cacheVars>>
    /\ \/ /\ UNCHANGED ratelimit
          /\ RateLimitDone(w, "next", TRUE)
       \/ /\ ratelimit' = [ratelimit EXCEPT ![limiters[w].client] = [count |-> 1, ttl |-> TRUE]]
          /\ RateLimitDone(w, "next", FALSE)

\* The key existed: Increment it, give it a TTL when the counter is 2 (the error
\* of Expire is discarded), and compare the counter with maxRequests.
RateLimitIncrement(w) ==
    /\ limiters[w].pc = "increment"
    /\ UNCHANGED <<engineVars, imageVars, accountVars, cacheVars>>
    /\ LET c == limiters[w].client
           count == ratelimit[c].count + 1
       IN
       \/ /\ UNCHANGED ratelimit
          /\ RateLimitDone(w, "next", TRUE)
       \/ /\ \E ttl \in {ratelimit[c].ttl, ratelimit[c].ttl \/ count = 2} :
                ratelimit' = [ratelimit EXCEPT ![c] = [count |-> count, ttl |-> ttl]]
          /\ RateLimitDone(w, IF count > maxRequests THEN "abort" ELSE "next", FALSE)

\* The TTL of a client's key passes: Redis drops the key, and a new lifetime
\* begins for the requests that arrive from now on.
RateExpire(client) ==
    /\ UNCHANGED <<engineVars, imageVars, accountVars, cacheVars>>
    /\ ratelimit[client].count > 0 /\ ratelimit[client].ttl
    /\ ratelimit' = [ratelimit EXCEPT ![client] = NoRate]
    /\ tally' = [tally EXCEPT ![client] = NoTally]
    /\ UNCHANGED limiters

\* ---------------------------------------------------------- specification
\* The requests of the goroutines P, with request notes from notesIn, update
\* payment details from detailsIn and Create bodies from createIn, creating at
\* most maxTxns transactions.  The notes and payment details of a request are
\* first read by the write that stores them, so they are drawn there.
Requests(P, notesIn, detailsIn, createIn, maxTxns) ==
    \/ \E p \in P, id \in TxnIds, u \in Users : CompleteTransaction(p, id, u)
    \/ \E p \in P, notes \in notesIn : CompleteUpdateTransaction(p, RefIn, notes)
    \/ \E p \in P : CompleteUpdateVehicle(p)
    \/ \E p \in P, id \in TxnIds, u \in Users : CancelTransaction(p, id, u)
    \/ \E p \in P, notes \in notesIn : CancelUpdateTransaction(p, notes)
    \/ \E p \in P, id \in TxnIds, u \in Users : UpdateTransaction(p, id, u)
    \/ \E p \in P, d \in detailsIn, notes \in notesIn : UpdateWriteTransaction(p, d, notes)
    \/ \E p \in P, v \in Vehicles \cup {NoVehicle}, b \in Parties, u \in Users, req \in createIn :
          CreateTransaction(p, v, b, u, req, maxTxns)
    \/ \E p \in P, notes \in notesIn : CreateInsertTransaction(p, notes)
    \/ \E p \in P, v \in Vehicles, u \in Users : UpdateVehicle(p, v, u)
    \/ \E p \in P, req \in FormRequestsIn : UpdateVehicleWrite(p, req)
    \/ \E p \in P, v \in Vehicles, u \in Users : DeleteVehicle(p, v, u)

\* Concurrent requests.  Notes steer no handler, so the requests carry none here.
Next == Requests(Procs, {""}, DetailsIn, PlainRequestsIn, MaxTxns)

Spec == Init /\ [][Next]_vars

\* Concurrent Create requests alone, on a vehicle its owner may archive in
\* between, until MaxCreated transactions exist.
NextCreate ==
    \/ \E p \in Procs, v \in Vehicles \cup {NoVehicle}, b \in Users, u \in Users,
          req \in OrderRequestsIn :
          CreateTransaction(p, v, b, u, req, MaxCreated)
    \/ \E p \in Procs, notes \in NotesIn : CreateInsertTransaction(p, notes)
    \/ \E p \in Procs, v \in Vehicles, u \in Users : DeleteVehicle(p, v, u)

SpecCreate == Init /\ [][NextCreate]_vars

\* One Create request at a time with every body of CreateRequestsIn: request
\* validation and the financing figures.
NextFinancing ==
    \/ \E v \in Vehicles \cup {NoVehicle}, b \in Users, u \in Users, req \in CreateRequestsIn :
          CreateTransaction(1, v, b, u, req, MaxTxns)
    \/ CreateInsertTransaction(1, "")

SpecFinancing == Init /\ [][NextFinancing]_vars

\* Image upload requests of the users on the vehicles, with every list of files
\* of FilesIn, until MaxIssued files have been stored.
NextUpload ==
    \/ \E u \in Uploaders, v \in Vehicles \cup {NoVehicle}, user \in Users, files \in FilesIn :
          UploadVehicleImages(u, v, user, files)
    \/ \E u \in Uploaders : UploadFile(u)
    \/ \E u \in Uploaders : UploadFindVehicle(u)
    \/ \E u \in Uploaders : UploadWriteVehicle(u)
    \/ \E u \in Uploaders : UploadFetchVehicle(u)

SpecUpload == Init /\ [][NextUpload]_vars

\* Concurrent image requests of the users on the vehicles: uploads of one or two
\* image files, deletions and choices of the primary image, until MaxIssued
\* files have been stored.
NextImages ==
    \/ \E u \in Uploaders, v \in Vehicles, user \in Users,
          files \in {<<"image">>, <<"image", "image">>} :
          UploadVehicleImages(u, v, user, files)
    \/ \E u \in Uploaders : UploadFile(u)
    \/ \E u \in Uploaders : UploadFindVehicle(u)
    \/ \E u \in Uploaders : UploadWriteVehicle(u)
    \/ \E u \in Uploaders : UploadFetchVehicle(u)
    \/ \E u \in Uploaders, v \in Vehicles, id \in 1..MaxIssued, user \in Users :
          DeleteVehicleImage(u, v, id, user)
    \/ \E u \in Uploaders, v \in Vehicles, id \in 1..MaxIssued, user \in Users :
          SetPrimaryImage(u, v, id, user)
    \/ \E u \in Uploaders : DeleteCloudImage(u)
    \/ \E u \in Uploaders : ImagesFindVehicle(u)
    \/ \E u \in Uploaders : ImagesWriteVehicle(u)
    \/ \E u \in Uploaders : ImagesFetchVehicle(u)

SpecImages == Init /\ [][NextImages]_vars

\* Concurrent requests of the clients through the rate limiter, and the expiry
\* of their keys.
NextRateLimit ==
    \/ \E w \in Limiters, c \in Clients : RateLimitExists(w, c)
    \/ \E w \in Limiters : RateLimitSet(w)
    \/ \E w \in Limiters : RateLimitIncrement(w)
    \/ \E c \in Clients : RateExpire(c)

SpecRateLimit == Init /\ [][NextRateLimit]_vars

\* An upload of one file while the external store has never held any.
UploadFirstImage(u, vehicleID, userID) ==
    /\ cloud.issued = 0
    /\ UploadVehicleImages(u, vehicleID, userID, <<"image">>)

\* Every operation that reaches a vehicle document: the transaction requests of
\* the seller u1 and the vehicle requests of u1 and of the buyer u2, all of one
\* goroutine, and next to them the image requests of u1 and u2 in another, on
\* the one image that is uploaded.
NextVehicles ==
    \/ \E v \in Vehicles : CreateTransaction(1, v, "u2", "u1", CashRequest, MaxTxns)
    \/ CreateInsertTransaction(1, "")
    \/ \E id \in TxnIds : UpdateTransaction(1, id, "u1")
    \/ UpdateWriteTransaction(1, NoDetails, "")
    \/ \E id \in TxnIds : CompleteTransaction(1, id, "u1")
    \/ CompleteUpdateTransaction(1, RefIn, "")
    \/ CompleteUpdateVehicle(1)
    \/ \E id \in TxnIds : CancelTransaction(1, id, "u1")
    \/ CancelUpdateTransaction(1, "")
    \/ \E v \in Vehicles, u \in Parties : UpdateVehicle(1, v, u)
    \/ \E req \in FormRequestsIn : UpdateVehicleWrite(1, req)
    \/ \E v \in Vehicles, u \in Parties : DeleteVehicle(1, v, u)
    \/ \E v \in Vehicles, u \in Parties : UploadFirstImage(1, v, u)
    \/ UploadFile(1)
    \/ UploadFindVehicle(1)
    \/ UploadWriteVehicle(1)
    \/ UploadFetchVehicle(1)
    \/ \E v \in Vehicles, u \in Parties : DeleteVehicleImage(1, v, 1, u)
    \/ \E v \in Vehicles, u \in Parties : SetPrimaryImage(1, v, 1, u)
    \/ DeleteCloudImage(1)
    \/ ImagesFindVehicle(1)
    \/ ImagesWriteVehicle(1)
    \/ ImagesFetchVehicle(1)

SpecVehicles == Init /\ [][NextVehicles]_vars

\* Concurrent Create, Complete and Cancel requests alone, until MaxCreated
\* transactions exist: no Update and no edit of a vehicle comes in between.
NextTransitions ==
    \/ \E p \in Procs, v \in Vehicles, b \in Users, u \in Users :
          CreateTransaction(p, v, b, u, CashRequest, MaxCreated)
    \/ \E p \in Procs : CreateInsertTransaction(p, "")
    \/ \E p \in Procs, id \in 1..MaxCreated, u \in Users : CompleteTransaction(p, id, u)
    \/ \E p \in Procs : CompleteUpdateTransaction(p, RefIn, "")
    \/ \E p \in Procs : CompleteUpdateVehicle(p)
    \/ \E p \in Procs, id \in 1..MaxCreated, u \in Users : CancelTransaction(p, id, u)
    \/ \E p \in Procs : CancelUpdateTransaction(p, "")

SpecTransitions == Init /\ [][NextTransitions]_vars

\* Requests to the cached vehicle routes, one at a time, and the passing of time.
NextCache ==
    \/ \E v \in Vehicles \cup {NoVehicle} : CachedGetVehicle(v)
    \/ \E v \in Vehicles \cup {NoVehicle}, u \in Users, st \in VehicleStatusIn :
          PutVehicle(v, u, st)
    \/ CacheExpire

SpecCache == Init /\ [][NextCache]_vars

\* Payment details of an Update request that carry one sub-field each.
PartialDetailsIn ==
    {NoDetails,
     [NoDetails EXCEPT !.present = TRUE, !.transactionReference = "ref2"],
     [NoDetails EXCEPT !.present = TRUE, !.bankName = "bank"]}

\* One request at a time: Create with cash or financing, then Update requests
\* with every status, notes and the payment details of PartialDetailsIn.
NextUpdate ==
    \/ \E v \in Vehicles, b \in Users, u \in Users,
          req \in {CashRequest, FinancingRequest(13000, 1000, 12, 0, 0)} :
          CreateTransaction(1, v, b, u, req, MaxTxns)
    \/ \E notes \in NotesIn : CreateInsertTransaction(1, notes)
    \/ \E id \in TxnIds, u \in Users : UpdateTransaction(1, id, u)
    \/ \E d \in PartialDetailsIn, notes \in NotesIn : UpdateWriteTransaction(1, d, notes)

SpecUpdate == Init /\ [][NextUpdate]_vars

\* Concurrent Register requests for the emails of Emails, until MaxUsers users
\* are stored.
NextRegister ==
    \/ \E r \in Registrars, email \in Emails : Register(r, email)
    \/ \E r \in Registrars : RegisterInsert(r)

SpecRegister == Init /\ [][NextRegister]_vars

\* ------------------------------------------------------------- vocabulary
\* The vehicle transaction id refers to has been handed to its buyer.
VehicleTransferred(id) ==
    /\ vehicles[txns[id].vehicleId].ownerId = txns[id].buyerId
    /\ vehicles[txns[id].vehicleId].status = VehicleStatusSold

\* Transaction id carries the mark only CompleteTransaction writes.
CompletedByComplete(id) ==
    txns[id].status = TransactionStatusCompleted /\ txns[id].completedAt

\* The step just taken answered a request of kind op.
Answered(op) == resp.op = op

\* A step that answers a request of kind op by its first step (the request never
\* left the idle position: it was rejected, or its first store access failed).
AnsweredAtOnce(op) == resp'.op = op /\ procs' = procs

\* Goroutine p's request passes its checks in this step and goes on to position pc.
Accepted(p, pc) == procs[p].pc = "idle" /\ procs'[p].pc = pc

\* Goroutine p's request, at position pc, is answered in this step.
Returns(p, pc) == procs[p].pc = pc /\ procs'[p].pc = "idle"

\* ------------------------------------------------------------------ claims

\* C1: after a successful Complete of transaction T, T.status = completed and
\* T's vehicle has status sold and is owned by T's buyer.
C1_CompleteResult ==
    (Answered("complete") /\ resp.kind = "ok") =>
        /\ txns[resp.id].status = TransactionStatusCompleted
        /\ VehicleTransferred(resp.id)

\* C2: a Complete call that fails applies neither half of its effect: it does
\* not leave the transaction completed and it leaves the vehicle as it was.
\* (A call at complete_vehicle has applied its first half.)
C2_AllOrNothing ==
    [][\A p \in Procs :
          (/\ Returns(p, "complete_txn") \/ Returns(p, "complete_vehicle")
           /\ resp'.kind # "ok")
          => /\ txns'[procs[p].id].status # TransactionStatusCompleted
             /\ vehicles' = vehicles]_vars

\* C3: in no reachable state is a transaction marked completed by Complete while
\* its vehicle is not sold to the buyer, nor is the vehicle handed to the buyer
\* while the transaction is still pending.
C3_NoPartialState ==
    \A id \in 1..Len(txns) :
        /\ CompletedByComplete(id) => VehicleTransferred(id)
        /\ VehicleTransferred(id) => txns[id].status # TransactionStatusPending

\* C4: of the Complete calls that run concurrently on one transaction at most
\* one returns success, and the completion effect is applied at most once.
C4_AtMostOneCompletion ==
    /\ (Answered("complete") /\ resp.kind = "ok") => ~resp.raced
    /\ \A p, q \in Procs :
          (p # q /\ procs[p].pc = "complete_vehicle" /\ procs[q].pc = "complete_vehicle")
          => procs[p].id # procs[q].id

\* C5: no step moves a transaction out of completed or cancelled.
C5_TerminalIsFinal ==
    [][\A id \in 1..Len(txns) :
          Terminal(txns[id].status) => txns'[id].status = txns[id].status]_vars

\* C6: once a transaction has been completed or cancelled, every further
\* Complete by its seller and Cancel by its seller or buyer is answered
\* InvalidState (unless the request is malformed or the store fails), passes no
\* precondition check and changes nothing.
C6_NoFurtherTransition ==
    [][/\ \A p \in Procs :
             (Accepted(p, "complete_txn") \/ Accepted(p, "cancel_write"))
             => procs'[p].id \notin everTerminal
       /\ (/\ AnsweredAtOnce("complete") \/ AnsweredAtOnce("cancel")
           /\ resp'.id \in everTerminal
           /\ \/ resp'.user = txns[resp'.id].sellerId
              \/ resp'.op = "cancel" /\ resp'.user = txns[resp'.id].buyerId)
          => /\ resp'.kind \in {"InvalidState", "ValidationFailed", "PersistenceFailure"}
             /\ UNCHANGED <<txns, vehicles>>]_vars

C8_OnlySellerCompletes ==
    [][/\ (/\ AnsweredAtOnce("complete")
           /\ Exists(resp'.id)
           /\ resp'.user # txns[resp'.id].sellerId)
          => /\ resp'.kind \in {"Forbidden", "ValidationFailed", "PersistenceFailure"}
             /\ UNCHANGED <<txns, vehicles>>
       /\ \A p \in Procs :
             Accepted(p, "complete_txn") => procs'[p].user = txns[procs'[p].id].sellerId
       /\ \A p \in Procs :
             (Returns(p, "complete_vehicle") /\ resp'.kind = "ok")
             => /\ procs[p].user = txns[procs[p].id].sellerId
                /\ procs[p].from = TransactionStatusPending]_vars

\* C9: a Cancel passes its checks only for the seller or the buyer; one that
\* returns success took the transaction from pending to cancelled and set
\* cancelledAt; a caller who is neither party is answered Forbidden (unless the
\* store fails) and the transaction is unchanged.
C9_CancelContract ==
    [][/\ \A p \in Procs :
             Accepted(p, "cancel_write")
             => procs'[p].user \in {txns[procs'[p].id].sellerId, txns[procs'[p].id].buyerId}
       /\ \A p \in Procs :
             (Returns(p, "cancel_write") /\ resp'.kind = "ok")
             => /\ procs[p].user \in {txns[procs[p].id].sellerId, txns[procs[p].id].buyerId}
                /\ txns[procs[p].id].status = TransactionStatusPending
                /\ txns'[procs[p].id].status = TransactionStatusCancelled
                /\ txns'[procs[p].id].cancelledAt
       /\ (/\ AnsweredAtOnce("cancel")
           /\ Exists(resp'.id)
           /\ resp'.user \notin {txns[resp'.id].sellerId, txns[resp'.id].buyerId})
          => /\ resp'.kind \in {"Forbidden", "PersistenceFailure"}
             /\ UNCHANGED txns]_vars

\* C10: no step of a Cancel call, successful or not, changes a vehicle.
C10_CancelLeavesVehicles ==
    [][(resp'.op = "cancel" \/ \E p \in Procs : Accepted(p, "cancel_write"))
       => vehicles' = vehicles]_vars

C10_Witness ==
    /\ Answered("cancel") /\ resp.kind = "ok"
    /\ txns[resp.id].status = TransactionStatusCancelled
    /\ vehicles[txns[resp.id].vehicleId] = ListedVehicle(txns[resp.id].sellerId)

\* C11: a Create whose read of the vehicle finds that the caller is not its owner
\* is answered Forbidden, and one that finds the caller the owner but the vehicle
\* not active, or the buyer equal to the seller, is answered ValidationFailed
\* (unless the request body is rejected first or the read fails); none of them
\* goes on to the insert, and the step persists nothing.
C11_CreateRejects ==
    [][/\ (/\ AnsweredAtOnce("create")
           /\ resp'.veh \in Vehicles
           /\ \/ vehicles[resp'.veh].ownerId # resp'.user
              \/ vehicles[resp'.veh].status # VehicleStatusActive
              \/ resp'.buyer = resp'.user)
          => /\ \/ resp'.kind = "PersistenceFailure"
                \/ /\ resp'.kind = "ValidationFailed"
                   /\ CreateTransactionRequestValidate(resp'.req) # ""
                \/ resp'.kind = IF vehicles[resp'.veh].ownerId # resp'.user
                                THEN "Forbidden" ELSE "ValidationFailed"
             /\ txns' = txns
       /\ \A p \in Procs :
             Accepted(p, "create_insert")
             => /\ vehicles[procs'[p].veh].ownerId = procs'[p].user
                /\ vehicles[procs'[p].veh].status = VehicleStatusActive
                /\ procs'[p].buyer # procs'[p].user]_vars

C11_Witness ==
    /\ Answered("create") /\ resp.kind = "ValidationFailed"
    /\ CreateTransactionRequestValidate(resp.req) = ""
    /\ resp.veh \in Vehicles
    /\ vehicles[resp.veh].ownerId = resp.user
    /\ vehicles[resp.veh].status # VehicleStatusActive
    /\ resp.buyer # resp.user
    /\ txns = << >>

\* C12: a Create that returns success has inserted exactly one transaction, with
\* status pending, the caller as seller, the requested vehicle and buyer and an
\* identifier no existing transaction has; it changed no vehicle and no other
\* transaction.
C12_CreateInsertsOne ==
    [][\A p \in Procs :
          (Returns(p, "create_insert") /\ resp'.kind = "ok")
          => /\ Len(txns') = Len(txns) + 1
             /\ resp'.id \in (1..Len(txns')) \ (1..Len(txns))
             /\ txns'[resp'.id].status = TransactionStatusPending
             /\ txns'[resp'.id].sellerId = procs[p].user
             /\ txns'[resp'.id].vehicleId = procs[p].veh
             /\ txns'[resp'.id].buyerId = procs[p].buyer
             /\ resp'.user = procs[p].user
             /\ \A id \in 1..Len(txns) : txns'[id] = txns[id]
             /\ vehicles' = vehicles]_vars

C12_Witness ==
    /\ Answered("create") /\ resp.kind = "ok"
    /\ resp.id = 2
    /\ txns[2].status = TransactionStatusPending
    /\ txns[2].sellerId = resp.user /\ txns[2].buyerId = resp.buyer
    /\ txns[1] # txns[2]

\* C13: a Create for a vehicle id that names no vehicle is answered NotFound
\* (unless the request body is rejected or the read fails) and persists nothing.
C13_CreateVehicleNotFound ==
    [][(/\ AnsweredAtOnce("create")
        /\ resp'.veh \notin Vehicles
        /\ CreateTransactionRequestValidate(resp'.req) = ""
        /\ resp'.kind # "PersistenceFailure")
       => /\ resp'.kind = "NotFound"
          /\ txns' = txns]_vars

\* C14: every stored transaction has buyer # seller and amount > 0, and at the
\* step that inserted it its seller owned the vehicle and the vehicle was active.
C14_CreationInvariants ==
    [][/\ \A id \in 1..Len(txns') :
             /\ txns'[id].buyerId # txns'[id].sellerId
             /\ txns'[id].amount > 0
       /\ \A p \in Procs :
             (Returns(p, "create_insert") /\ resp'.kind = "ok")
             => /\ vehicles[procs[p].veh].ownerId = procs[p].user
                /\ vehicles[procs[p].veh].status = VehicleStatusActive]_vars

\* C15: a Complete re-issued by the same caller right after a Complete that
\* failed at its vehicle write is not answered InvalidState while the vehicle is
\* still not transferred.
C15_RetryAfterFailure ==
    [][(/\ Answered("complete") /\ resp.kind = "PersistenceFailure" /\ resp.veh # ""
        /\ AnsweredAtOnce("complete")
        /\ resp'.id = resp.id /\ resp'.user = resp.user)
       => ~(resp'.kind = "InvalidState" /\ ~VehicleTransferred(resp.id))]_vars

\* The payment details the claim wants rejected.
DetailsToReject(req) ==
    \/ /\ req.paymentMethod = PaymentMethodFinancing
       /\ \/ req.downPayment <= 0
          \/ req.downPayment >= req.amount
          \/ req.financingTerms <= 0
          \/ req.interestRate < 0
    \/ /\ req.paymentMethod = PaymentMethodBankTransfer
       /\ req.bankName = ""

\* C16: a Create whose payment details are to be rejected is answered
\* ValidationFailed with nothing persisted and never reaches the insert; a
\* request with a positive amount, a currency and a valid payment method whose
\* details are not to be rejected is not rejected for its body (a
\* ValidationFailed it gets comes from the checks on the vehicle and the buyer).
C16_PaymentDetailValidation ==
    [][/\ (AnsweredAtOnce("create") /\ DetailsToReject(resp'.req))
          => /\ resp'.kind = "ValidationFailed"
             /\ txns' = txns
       /\ \A p \in Procs :
             Accepted(p, "create_insert") => ~DetailsToReject(procs'[p].req)
       /\ (/\ AnsweredAtOnce("create")
           /\ resp'.kind = "ValidationFailed"
           /\ ~DetailsToReject(resp'.req)
           /\ resp'.req.amount > 0
           /\ resp'.req.currency # ""
           /\ IsValidPaymentMethod(resp'.req.paymentMethod))
          => /\ resp'.veh \in Vehicles
             /\ vehicles[resp'.veh].ownerId = resp'.user
             /\ \/ vehicles[resp'.veh].status # VehicleStatusActive
                \/ resp'.buyer = resp'.user]_vars

C16_Witness ==
    /\ Answered("create") /\ resp.kind = "ValidationFailed"
    /\ resp.req.paymentMethod = PaymentMethodFinancing
    /\ resp.req.amount > 0
    /\ resp.req.downPayment = resp.req.amount
    /\ resp.req.financingTerms > 0
    /\ resp.req.interestRate >= 0
    /\ resp.veh \in Vehicles
    /\ vehicles[resp.veh].ownerId = resp.user
    /\ resp.buyer # resp.user
    /\ txns = << >>

\* C17: the transaction a financing Create inserts has financedAmount = amount -
\* downPayment whatever financedAmount the request carried, and with interest
\* rate 0 its monthlyPayment is financedAmount / term, the term not being 0.
C17_FinancedAmountAndZeroRate ==
    [][\A p \in Procs :
          (/\ Returns(p, "create_insert") /\ resp'.kind = "ok"
           /\ procs[p].req.paymentMethod = PaymentMethodFinancing)
          => LET req == procs[p].req
                 txn == txns'[resp'.id]
             IN /\ txn.financedAmount = req.amount - req.downPayment
                /\ req.interestRate = 0
                   => /\ req.financingTerms # 0
                      /\ txn.monthlyPayment.den # 0
                      /\ txn.monthlyPayment.num * req.financingTerms
                            = txn.financedAmount * txn.monthlyPayment.den]_vars

C17_Witness ==
    /\ Answered("create") /\ resp.kind = "ok"
    /\ resp.req.paymentMethod = PaymentMethodFinancing
    /\ resp.req.interestRate = 0
    /\ resp.req.financingTerms = 12
    /\ resp.req.financedAmount = 5
    /\ txns[resp.id].financedAmount = 12000
    /\ txns[resp.id].monthlyPayment = RatInt(1000)

\* P * r(1+r)^n / ((1+r)^n - 1) for r = rate / 100 / 12, by exponentiation
AmortizedPayment(P, rate, n) ==
    LET r == Rat(rate, 1200)
        growth == [num |-> (r.num + r.den) ^ n, den |-> r.den ^ n]
    IN RatDiv(RatMul(RatInt(P), RatMul(r, growth)),
              [num |-> growth.num - growth.den, den |-> growth.den])

C19_UpdateAuthorization ==
    [][/\ (/\ AnsweredAtOnce("update")
           /\ Exists(resp'.id)
           /\ resp'.user \notin {txns[resp'.id].sellerId, txns[resp'.id].buyerId})
          => /\ resp'.kind \in {"Forbidden", "ValidationFailed", "PersistenceFailure"}
             /\ txns' = txns
       /\ \A p \in Procs :
             Accepted(p, "update_write")
             => procs'[p].user \in {txns[procs'[p].id].sellerId, txns[procs'[p].id].buyerId}
       /\ (AnsweredAtOnce("update") /\ ~Exists(resp'.id))
          => /\ resp'.kind \in {"NotFound", "ValidationFailed", "PersistenceFailure"}
             /\ txns' = txns
       /\ \A p \in Procs : Accepted(p, "update_write") => Exists(procs'[p].id)]_vars

C19_Witness ==
    /\ Answered("update") /\ resp.kind = "Forbidden"
    /\ Exists(resp.id)
    /\ resp.user \notin {txns[resp.id].sellerId, txns[resp.id].buyerId}

\* C20: no step removes a transaction: every transaction that exists before a
\* step exists after it under the same identifier, for the same vehicle, seller
\* and buyer.
C20_NeverRemoved ==
    [][/\ Len(txns') >= Len(txns)
       /\ \A id \in 1..Len(txns) :
             /\ txns'[id].vehicleId = txns[id].vehicleId
             /\ txns'[id].sellerId = txns[id].sellerId
             /\ txns'[id].buyerId = txns[id].buyerId]_vars

C20_Witness ==
    /\ Answered("update") /\ resp.kind = "ok"
    /\ Exists(resp.id)
    /\ txns[resp.id].status = TransactionStatusCancelled
    /\ txns[resp.id].cancelledAt

\* C21: when an image upload request fails after it stored images in the
\* external store, every image it stored is deleted again: after the failed
\* request the store holds none of them.
C21_FailedUploadLeavesNothing ==
    (upResp.op = "upload" /\ upResp.kind # "ok") =>
        Range(upResp.uploadedPublicIDs) \cap cloud.held = {}

BodyToReject(req) ==
    \/ req.amount <= 0
    \/ req.currency = ""
    \/ ~IsValidPaymentMethod(req.paymentMethod)
    \/ DetailsToReject(req)

C24_UpdateMerges ==
    [][\A p \in Procs :
          (Returns(p, "update_write") /\ resp'.kind = "ok")
          => LET old == txns[procs[p].id]
                 new == txns'[procs[p].id]
             IN /\ new.status = old.status \/ (new.status = procs[p].status /\ new.status # "")
                /\ new.notes = old.notes \/ new.notes # ""
                /\ new.transactionReference = old.transactionReference
                      \/ new.transactionReference # ""
                /\ new.paidAt = old.paidAt \/ new.paidAt
                /\ new.downPayment = old.downPayment \/ new.downPayment # 0
                /\ new.financedAmount = old.financedAmount \/ new.financedAmount # 0
                /\ new.monthlyPayment = old.monthlyPayment \/ new.monthlyPayment # RatInt(0)
                /\ new.financingTerms = old.financingTerms \/ new.financingTerms # 0
                /\ new.interestRate = old.interestRate \/ new.interestRate # 0
                /\ new.bankName = old.bankName \/ new.bankName # ""]_vars

\* C25: a Complete whose transaction reference is empty is rejected and changes
\* nothing; the write of a Complete that goes on to succeed leaves the
\* transaction with the supplied reference, paidAt and completedAt set and
\* cancelledAt unset.
C25_CompleteReference ==
    [][/\ (AnsweredAtOnce("complete") /\ resp'.kind = "ValidationFailed")
          => (txns' = txns /\ vehicles' = vehicles)
       /\ \A p \in Procs :
             (procs[p].pc = "complete_txn" /\ procs'[p].pc = "complete_vehicle")
             => LET new == txns'[procs[p].id]
                IN /\ new.transactionReference = RefIn
                   /\ new.paidAt
                   /\ new.completedAt
                   /\ ~new.cancelledAt]_vars

\* C26: every stored transaction's status is pending, completed, cancelled or
\* failed; an Update that goes on to its write carries no status or one of the
\* four, and an Update rejected for its body changes nothing.
C26_FourStatuses ==
    /\ [](\A id \in 1..Len(txns) :
             txns[id].status \in {"pending", "completed", "cancelled", "failed"})
    /\ [][/\ \A p \in Procs :
                (Accepted(p, "update_write")
                 => procs'[p].status \in {"", "pending", "completed", "cancelled", "failed"})
           /\ ((AnsweredAtOnce("update") /\ resp'.kind = "ValidationFailed")
                => (txns' = txns /\ vehicles' = vehicles))]_vars

\* An Update was rejected for its status while a transaction is stored, and
\* another Update has set a status Complete and Cancel never write.
C26_Witness ==
    /\ Answered("update") /\ resp.kind = "ValidationFailed"
    /\ Exists(resp.id)
    /\ txns[resp.id].status = TransactionStatusFailed

\* C27: after a successful modifying request on a vehicle, a GET of the vehicle
\* is not answered from the cache with a response stored before the
\* modification.
C27_CacheBusted ==
    (cacheResp.op = "get" /\ cacheResp.hit) => ~cacheResp.outdated

\* C28: of a Complete and a Cancel that run concurrently on a pending
\* transaction exactly one takes effect: no Complete returns success on a
\* transaction a Cancel has marked, and no cancelled transaction has its vehicle
\* transferred to its buyer.
C28_CompleteOrCancel ==
    /\ (Answered("complete") /\ resp.kind = "ok") => ~txns[resp.id].cancelledAt
    /\ \A id \in 1..Len(txns) :
          (txns[id].status = TransactionStatusCancelled /\ txns[id].completedAt)
          => ~VehicleTransferred(id)

\* C29: a Complete changes the owner of a vehicle only if the vehicle is, at
\* that moment, owned by the transaction's seller and active: a vehicle sold
\* through one transaction is not transferred again by completing another
\* transaction created earlier for it.
C29_TransferOnlyFromSeller ==
    [][\A p \in Procs :
          (procs[p].pc = "complete_vehicle" /\ vehicles' # vehicles)
          => LET t == txns[procs[p].id]
             IN /\ vehicles[t.vehicleId].ownerId = t.sellerId
                /\ vehicles[t.vehicleId].status = VehicleStatusActive]_vars

\* C30: a transaction has status completed only if a Complete succeeded on it:
\* completedAt is set and, once no Complete on it is between its two writes, its
\* vehicle is owned by its buyer and marked sold. An Update does not produce a
\* completed transaction whose vehicle was never transferred.
C30_CompletedOnlyByComplete ==
    \A id \in 1..Len(txns) :
        txns[id].status = TransactionStatusCompleted
        => /\ txns[id].completedAt
           /\ \/ VehicleTransferred(id)
              \/ \E p \in Procs : procs[p].pc = "complete_vehicle" /\ procs[p].id = id

\* C31: no transaction has both completedAt and cancelledAt set; completedAt
\* is set only on completed transactions and cancelledAt only on cancelled ones.
C31_TimestampsMatchStatus ==
    \A id \in 1..Len(txns) :
        /\ ~(txns[id].completedAt /\ txns[id].cancelledAt)
        /\ txns[id].completedAt => txns[id].status = TransactionStatusCompleted
        /\ txns[id].cancelledAt => txns[id].status = TransactionStatusCancelled

\* The fields of a transaction document that Create alone writes.
CreatedFields(txn) ==
    <<txn.vehicleId, txn.sellerId, txn.buyerId, txn.type, txn.amount, txn.currency,
      txn.paymentMethod, txn.createdAt>>

\* C32: the vehicle reference, seller, buyer, type, amount, currency, payment
\* method and createdAt of a stored transaction are the same after every step:
\* Update, Complete and Cancel leave them as created.
C32_CreatedFieldsKept ==
    [][\A id \in 1..Len(txns) :
          /\ id \in 1..Len(txns')
          /\ CreatedFields(txns'[id]) = CreatedFields(txns[id])]_vars

\* A transaction that Complete, Cancel and Update have all written, the Update
\* with payment details.
C32_Witness ==
    /\ Answered("update") /\ resp.kind = "ok"
    /\ txns[resp.id].completedAt /\ txns[resp.id].cancelledAt
    /\ txns[resp.id].status = TransactionStatusFailed
    /\ txns[resp.id].transactionReference = "ref2"
    /\ CreatedFields(txns[resp.id]) =
           <<"v1", "u1", txns[resp.id].buyerId, TransactionTypeSale, CashRequest.amount,
             CashRequest.currency, PaymentMethodCash, TRUE>>

\* C33: UpdateVehicle writes to a vehicle only if its caller owns the vehicle when
\* the write is applied: an update whose ownership check came before a Complete
\* transferred the vehicle does not change the buyer's vehicle.
C33_WriteOnlyByOwner ==
    [][\A p \in Procs :
          (procs[p].pc = "vehicle_write" /\ vehicles' # vehicles)
          => vehicles[procs[p].veh].ownerId = procs[p].user]_vars

\* Exactly one image of list is marked primary.
OnePrimary(list) ==
    Cardinality({i \in 1..Len(list) : list[i].isPrimary}) = 1

\* C37: after any sequence and interleaving of UploadVehicleImages,
\* DeleteVehicleImage and SetPrimaryImage calls on a vehicle created without
\* images, its stored image list, when not empty, has exactly one primary image.
C37_OnePrimaryImage ==
    \A v \in Vehicles : Len(images[v]) > 0 => OnePrimary(images[v])

\* A deletion or a choice of the primary image has been answered with success
\* and the vehicle has two images, the second of them the primary one.
C37_Witness ==
    /\ upResp.op \in {"deleteImage", "setPrimary"} /\ upResp.kind = "ok"
    /\ \E v \in Vehicles :
          /\ Len(images[v]) = 2
          /\ images[v][2].isPrimary
          /\ OnePrimary(images[v])

\* C35: UpdateVehicle changes only the fields its request carries: the write of
\* an update that carries only images (as the image handlers send it) leaves the
\* vehicle's price, mileage, make, model, year, owner and status as they were.
C35_OnlyFieldsCarried ==
    [][\A u \in Uploaders :
          uploads[u].pc \in {"upload_write", "images_write"} => vehicles' = vehicles]_vars

\* C34: the owner of a vehicle changes only in the step in which a Complete
\* returns success for it; an UpdateVehicle of a caller who is not the owner
\* gets no further than its ownership check, and the step of the vehicle
\* handlers that answers such a caller leaves the vehicles as they were.
C34_OwnerChangesByComplete ==
    [][/\ \A v \in Vehicles :
             vehicles'[v].ownerId # vehicles[v].ownerId
             => resp'.op = "complete" /\ resp'.kind = "ok" /\ resp'.veh = v
       /\ \A p \in Procs :
             Accepted(p, "vehicle_write") => OwnedBy(procs'[p].veh, procs'[p].user)
       /\ (AnsweredAtOnce("updateVehicle") \/ AnsweredAtOnce("deleteVehicle"))
             /\ UNCHANGED imageVars
             /\ ~OwnedBy(resp'.veh, resp'.user)
          => vehicles' = vehicles]_vars

\* A vehicle the seller lost through a Complete: the seller's next UpdateVehicle
\* or DeleteVehicle is turned away, while the vehicle carries an image.
C34_Witness ==
    /\ resp.op \in {"updateVehicle", "deleteVehicle"} /\ resp.kind = "NotFound"
    /\ resp.veh \in Vehicles
    /\ resp.user = "u1"
    /\ vehicles[resp.veh].ownerId = "u2"
    /\ vehicles[resp.veh].status = VehicleStatusSold
    /\ Len(images[resp.veh]) > 0

\* C36: within one lifetime of a client's rate-limit key, and as long as no
\* Redis call of the limiter has failed in it, at most maxRequests requests of
\* the client are passed on to the handlers, also when they arrive concurrently.
C36_AtMostMaxRequests ==
    \A c \in Clients : ~tally[c].failed => tally[c].passed <= maxRequests

====
